---- MODULE Spec2Model ----
(***************************************************************************)
(* Tab Organizer background service worker (src/src/background/index.ts): *)
(* the Activity Tracker's tab event handlers, the Stale Detector and the   *)
(* GET_STALE_TABS message, as asynchronous handlers over the host's tab    *)
(* inventory and chrome.storage.local.  Every handler yields at each       *)
(* await; one action is one resumption: the awaited host or storage call   *)
(* takes effect and the code runs on to the next await.                    *)
(***************************************************************************)
EXTENDS Integers, Sequences, FiniteSets, Bags, TLC

----------------------------------------------------------------------------
(* Bounds of the model *)

\* handlers in flight at the same time
MaxHandlers == 2
\* the clock advances MaxTicks times
MaxTicks == 2
\* activations of one tab that are counted
MaxVisits == 2

\* calls of crypto.randomUUID()
MaxUuids == 4

\* activity records handed to the Session Detector at once
MaxSnapshot == 4
\* calls of the Session Detector on one snapshot
MaxRuns == 2

\* the tab ids the host hands out (never reused)
TabIds == {1, 2}

----------------------------------------------------------------------------
(* Time *)

\* 60 * 60 * 1000, the milliseconds of an hour
HourMs == 60 * 60 * 1000
\* the clock advances in steps of eight hours
TickMs == 8 * HourMs

\* new Date(ms).toISOString(): the UTC day and the time of day, to the millisecond
ToISOString(ms) ==
    [day |-> ms \div (24 * HourMs), hour |-> (ms % (24 * HourMs)) \div HourMs,
     minute |-> (ms % HourMs) \div 60000, second |-> (ms % 60000) \div 1000,
     millisecond |-> ms % 1000]
\* new Date(iso).getTime()
GetTime(iso) ==
    iso.day * 24 * HourMs + iso.hour * HourMs + iso.minute * 60000
        + iso.second * 1000 + iso.millisecond

----------------------------------------------------------------------------
(* Host values *)

\* a property the host left out (tab.url, tab.title, tab.favIconUrl)
Undefined == "undefined"
Null == "null"

Url(scheme, host, path) == [scheme |-> scheme, host |-> host, path |-> path]
UndefinedUrl == Url(Undefined, "", "")

\* what a tab can show: url, title, favIconUrl
Page(url, title, favIconUrl) == [url |-> url, title |-> title, favIconUrl |-> favIconUrl]
Pages ==
    { Page(Url("https", "a.com", "/"), "A", "a.ico"),
      Page(Url("https", "b.com", "/"), Undefined, Undefined),
      Page(Url("chrome", "settings", "/"), "Settings", Undefined),
      Page(UndefinedUrl, Undefined, Undefined) }

Windows == {1}

\* chrome.tabs.Tab
Tab(id, page, windowId) ==
    [state |-> "open", id |-> id, url |-> page.url, title |-> page.title,
     favIconUrl |-> page.favIconUrl, windowId |-> windowId]
\* a tab id the host has not handed out yet, and one whose tab was closed
Unborn == [state |-> "unborn"]
Closed == [state |-> "closed"]

\* url.startsWith('chrome://')
StartsWithChrome(url) == url.scheme = "chrome"
\* !tab.url || tab.url.startsWith('chrome://')
Untrackable(tab) == tab.url = UndefinedUrl \/ StartsWithChrome(tab.url)

\* tab.title || ''
TitleOrEmpty(tab) == IF tab.title = Undefined THEN "" ELSE tab.title
\* tab.favIconUrl || null
FaviconOrNull(tab) == IF tab.favIconUrl = Undefined THEN Null ELSE tab.favIconUrl

----------------------------------------------------------------------------
(* TabActivityMap: Record<string, TabActivity> *)

EmptyMap == << >>
Has(m, k) == k \in DOMAIN m
Put(m, k, v) == [x \in DOMAIN m \cup {k} |-> IF x = k THEN v ELSE m[x]]
Delete(m, k) == [x \in DOMAIN m \ {k} |-> m[x]]

\* DEFAULT_SETTINGS.inactive_threshold_hours
DefaultThresholdHours == 8
\* storage without a user_settings key
NoSettings == [inactive_threshold_hours |-> 0, set |-> FALSE]
Settings(h) == [inactive_threshold_hours |-> h, set |-> TRUE]

----------------------------------------------------------------------------
(* chrome.alarms *)

CheckAlarm == "check-inactive-tabs"
SyncAlarm == "cloud-sync"

\* lines 80-83 and 90-93: the AlarmCreateInfo of the two alarms
AlarmInfo(name) ==
    IF name = CheckAlarm THEN [periodInMinutes |-> 30, delayInMinutes |-> 1]
    ELSE [periodInMinutes |-> 5, delayInMinutes |-> 2]

\* no alarm is scheduled, and both are
NoAlarms == << >>
BothAlarms == [name \in {CheckAlarm, SyncAlarm} |-> AlarmInfo(name)]

----------------------------------------------------------------------------
(* State *)

VARIABLES
    tabs,           \* the host's tab inventory: tab id -> Unborn, Tab or Closed
    clock,          \* ticks of the clock; Date.now() is clock * TickMs
    tab_activity,   \* chrome.storage.local: tab_activity
    stale_tabs,     \* chrome.storage.local: stale_tabs
    user_settings,  \* chrome.storage.local: user_settings
    badge,          \* chrome.action badge: text and background colour
    handlers,       \* the handlers invoked and not yet settled (a bag of their frames)
    cap,            \* how many handlers the host lets be in flight at once
    horizon,        \* how many times the clock advances
    alarms,         \* chrome.alarms: the alarms scheduled, by name
    folders,        \* chrome.storage.local: folders
    saved_tabs,     \* chrome.storage.local: saved_tabs
    uuids,          \* how many ids crypto.randomUUID() has handed out
    snapshot,       \* the array of activity records handed to the Session Detector
    runs,           \* the Session Detector's calls so far: what it was given and returned
    timezone        \* the offset of local time from UTC, in milliseconds

\* the keys of the store that only the Message Router and the install write
library == <<folders, saved_tabs, uuids>>
\* the Session Detector's argument and results
detector == <<snapshot, runs, timezone>>

vars == <<tabs, clock, tab_activity, stale_tabs, user_settings, badge, handlers, cap, horizon,
          alarms, folders, saved_tabs, uuids, snapshot, runs, timezone>>

\* chrome.storage.local and the tab inventory, as a request finds them
Store ==
    [tabs |-> tabs, tab_activity |-> tab_activity, stale_tabs |-> stale_tabs,
     user_settings |-> user_settings, folders |-> folders, saved_tabs |-> saved_tabs]

DateNow == clock * TickMs

IsOpen(t) == t \in TabIds /\ tabs[t].state = "open"
OpenIds == {t \in TabIds : IsOpen(t)}

----------------------------------------------------------------------------
(* Handler frames *)

NoTab == [state |-> "none"]
Frame(kind, pc) ==
    [kind |-> kind, pc |-> pc, tabId |-> 0, windowId |-> 0, tab |-> NoTab,
     queried |-> << >>, now |-> 0, read |-> EmptyMap, tab_activity |-> EmptyMap,
     thresholdMs |-> 0, pending |-> << >>, staleTabs |-> << >>, data |-> << >>,
     message |-> [type |-> "", payload |-> << >>], before |-> << >>,
     folders |-> << >>, saved_tabs |-> << >>, writes |-> << >>,
     raised |-> << >>, error |-> << >>, responses |-> << >>]

InFlight == BagCardinality(handlers)

\* the host delivers its events between the steps of the handlers in flight,
\* or, with one handler at a time, only once that handler has settled
Interleaves == cap > 1 \/ handlers = EmptyBag

\* a handler is invoked and reaches its first await (f.pc # "done"), or
\* returns before any await (f.pc = "done")
Spawn(f) ==
    /\ InFlight < cap
    /\ handlers' = handlers (+) SetToBag({f})

\* frame f resumes and runs to its next await (g.pc # "done") or to its end
Resume(f, g) ==
    handlers' = (handlers (-) SetToBag({f})) (+) SetToBag({g})

\* the promise of a handler that ran to its end settles
Settle(f) ==
    /\ f.pc = "done"
    /\ handlers' = handlers (-) SetToBag({f})
    /\ UNCHANGED <<tabs, clock, tab_activity, stale_tabs, user_settings, badge, cap, horizon, alarms, library, detector>>

Settled == \E f \in BagToSet(handlers) : Settle(f)

Frames(kind, pc) == {f \in BagToSet(handlers) : f.kind = kind /\ f.pc = pc}

----------------------------------------------------------------------------
(* handleTabActivated *)

\* a handleTabActivated that forgets line 124
ActivatedRecordNoCount(m, tabId, windowId, tab, now) ==
    LET activity == IF Has(m, tabId) THEN m[tabId]
                    ELSE [chrome_tab_id |-> tabId, url |-> tab.url,
                          title |-> TitleOrEmpty(tab), favicon_url |-> FaviconOrNull(tab),
                          last_active_at |-> now, total_active_time_ms |-> 0,
                          visit_count |-> 1, window_id |-> windowId]
    IN [activity EXCEPT !.last_active_at = now,
                        !.url = tab.url,
                        !.title = TitleOrEmpty(tab),
                        !.favicon_url = FaviconOrNull(tab)]

\* lines 112-127: the record of the activated tab
ActivatedRecord(m, tabId, windowId, tab, now) ==
    LET activity == IF Has(m, tabId) THEN m[tabId]
                    ELSE [chrome_tab_id |-> tabId, url |-> tab.url,
                          title |-> TitleOrEmpty(tab), favicon_url |-> FaviconOrNull(tab),
                          last_active_at |-> now, total_active_time_ms |-> 0,
                          visit_count |-> 0, window_id |-> windowId]
    IN [activity EXCEPT !.last_active_at = now,
                        !.visit_count = @ + 1,
                        !.url = tab.url,
                        !.title = TitleOrEmpty(tab),
                        !.favicon_url = FaviconOrNull(tab)]

\* the visits of tab t that are stored or about to be
VisitsOf(t) ==
    (IF Has(tab_activity, t) THEN tab_activity[t].visit_count ELSE 0)
    + BagCardinality([f \in {g \in BagToSet(handlers) : g.kind = "act" /\ g.tabId = t}
                        |-> handlers[f]])

\* chrome.tabs.onActivated fires for an open tab
TabActivatedEvent(t) ==
    /\ IsOpen(t)
    /\ VisitsOf(t) < MaxVisits
    /\ Spawn([Frame("act", "get") EXCEPT !.tabId = t, !.windowId = tabs[t].windowId])
    /\ UNCHANGED <<tabs, clock, tab_activity, stale_tabs, user_settings, badge, cap, horizon, alarms, library, detector>>

\* line 104-108: chrome.tabs.get resolves or rejects
ActivatedGet(f) ==
    /\ f \in Frames("act", "get")
    /\ IF ~IsOpen(f.tabId)
       THEN Resume(f, [f EXCEPT !.pc = "done"])
       ELSE IF Untrackable(tabs[f.tabId])
       THEN Resume(f, [f EXCEPT !.pc = "done", !.tab = tabs[f.tabId]])
       ELSE Resume(f, [f EXCEPT !.pc = "read", !.tab = tabs[f.tabId], !.now = DateNow])
    /\ UNCHANGED <<tabs, clock, tab_activity, stale_tabs, user_settings, badge, cap, horizon, alarms, library, detector>>

\* lines 108-130: storage.get resolves
ActivatedRead(f) ==
    /\ f \in Frames("act", "read")
    /\ Resume(f, [f EXCEPT !.pc = "write", !.read = tab_activity,
                           !.tab_activity = Put(tab_activity, f.tabId,
                               ActivatedRecord(tab_activity, f.tabId, f.windowId, f.tab, f.now))])
    /\ UNCHANGED <<tabs, clock, tab_activity, stale_tabs, user_settings, badge, cap, horizon, alarms, library, detector>>

\* line 130: storage.set resolves
ActivatedWrite(f) ==
    /\ f \in Frames("act", "write")
    /\ tab_activity' = f.tab_activity
    /\ Resume(f, [f EXCEPT !.pc = "done"])
    /\ UNCHANGED <<tabs, clock, stale_tabs, user_settings, badge, cap, horizon, alarms, library, detector>>

handleTabActivated ==
    \E f \in BagToSet(handlers) : ActivatedGet(f) \/ ActivatedRead(f) \/ ActivatedWrite(f)

----------------------------------------------------------------------------
(* handleTabUpdated *)

\* a handleTabUpdated that starts the record over
UpdatedMapResets(m, tabId, tab) ==
    Put(m, tabId, [m[tabId] EXCEPT !.url = tab.url,
                                   !.title = TitleOrEmpty(tab),
                                   !.favicon_url = FaviconOrNull(tab),
                                   !.visit_count = 1])

\* lines 149-152: the map with the record of the updated tab refreshed
UpdatedMap(m, tabId, tab) ==
    Put(m, tabId, [m[tabId] EXCEPT !.url = tab.url,
                                   !.title = TitleOrEmpty(tab),
                                   !.favicon_url = FaviconOrNull(tab)])

\* lines 142-143: the handler goes on to read the store
UpdateTracked(changeInfo, tab) ==
    /\ changeInfo.url \/ changeInfo.title
    /\ ~Untrackable(tab)

\* chrome.tabs.onUpdated fires with (tabId, changeInfo, tab): lines 136-146
TabUpdatedEvent(t, changeInfo) ==
    LET f == [Frame("upd", "read") EXCEPT !.tabId = t, !.tab = tabs'[t],
                                          !.data = <<changeInfo>>]
    IN IF UpdateTracked(changeInfo, tabs'[t])
       THEN Spawn(f)
       ELSE Spawn([f EXCEPT !.pc = "done", !.read = tab_activity,
                            !.tab_activity = tab_activity])

\* lines 146-154: storage.get resolves
UpdatedRead(f) ==
    /\ f \in Frames("upd", "read")
    /\ IF Has(tab_activity, f.tabId)
       THEN Resume(f, [f EXCEPT !.pc = "write", !.read = tab_activity,
                                !.tab_activity = UpdatedMap(tab_activity, f.tabId, f.tab)])
       ELSE Resume(f, [f EXCEPT !.pc = "done", !.read = tab_activity])
    /\ UNCHANGED <<tabs, clock, tab_activity, stale_tabs, user_settings, badge, cap, horizon, alarms, library, detector>>

\* line 153: storage.set resolves
UpdatedWrite(f) ==
    /\ f \in Frames("upd", "write")
    /\ tab_activity' = f.tab_activity
    /\ Resume(f, [f EXCEPT !.pc = "done"])
    /\ UNCHANGED <<tabs, clock, stale_tabs, user_settings, badge, cap, horizon, alarms, library, detector>>

handleTabUpdated ==
    \E f \in BagToSet(handlers) : UpdatedRead(f) \/ UpdatedWrite(f)

----------------------------------------------------------------------------
(* handleTabRemoved *)

\* line 166: delete tab_activity[tabId]
RemovedMap(m, tabId) == Delete(m, tabId)

\* lines 162-168: storage.get resolves
RemovedRead(f) ==
    /\ f \in Frames("rem", "read")
    /\ IF Has(tab_activity, f.tabId)
       THEN Resume(f, [f EXCEPT !.pc = "write", !.read = tab_activity,
                                !.tab_activity = RemovedMap(tab_activity, f.tabId)])
       ELSE Resume(f, [f EXCEPT !.pc = "done", !.read = tab_activity])
    /\ UNCHANGED <<tabs, clock, tab_activity, stale_tabs, user_settings, badge, cap, horizon, alarms, library, detector>>

\* line 167: storage.set resolves
RemovedWrite(f) ==
    /\ f \in Frames("rem", "write")
    /\ tab_activity' = f.tab_activity
    /\ Resume(f, [f EXCEPT !.pc = "done"])
    /\ UNCHANGED <<tabs, clock, stale_tabs, user_settings, badge, cap, horizon, alarms, library, detector>>

handleTabRemoved ==
    \E f \in BagToSet(handlers) : RemovedRead(f) \/ RemovedWrite(f)

----------------------------------------------------------------------------
(* checkForInactiveTabs *)

\* the elements of a set of numbers in ascending order: Object.entries lists
\* integer-like keys in ascending numeric order
RECURSIVE Ascending(_)
Ascending(S) ==
    IF S = {} THEN << >>
    ELSE LET k == CHOOSE x \in S : \A y \in S : x <= y
         IN <<k>> \o Ascending(S \ {k})

\* line 195: result.user_settings || DEFAULT_SETTINGS
SettingsOrDefault(stored) ==
    IF stored.set THEN stored ELSE Settings(DefaultThresholdHours)

\* line 197
ThresholdMs(settings) == settings.inactive_threshold_hours * 60 * 60 * 1000

\* line 202
InactiveMs(activity, now) == now - activity.last_active_at

\* a comparison that takes the threshold itself for inactive
IsInactiveAtThreshold(activity, now, thresholdMs) ==
    InactiveMs(activity, now) >= thresholdMs

\* line 204
IsInactive(activity, now, thresholdMs) == InactiveMs(activity, now) > thresholdMs

\* lines 201-204: the keys whose tab the loop asks the host about, in its order
Candidates(m, now, thresholdMs) ==
    Ascending({k \in DOMAIN m : IsInactive(m[k], now, thresholdMs)})

\* a StaleTab that counts a started hour as a whole one
StaleTabRoundedUp(activity, now) ==
    [chrome_tab_id |-> activity.chrome_tab_id, url |-> activity.url,
     title |-> activity.title, favicon_url |-> activity.favicon_url,
     inactive_hours |-> (InactiveMs(activity, now) + 60 * 60 * 1000 - 1) \div (60 * 60 * 1000)]

\* lines 208-214
StaleTab(activity, now) ==
    [chrome_tab_id |-> activity.chrome_tab_id, url |-> activity.url,
     title |-> activity.title, favicon_url |-> activity.favicon_url,
     inactive_hours |-> InactiveMs(activity, now) \div (60 * 60 * 1000)]

\* a loop whose catch leaves the record in place
ProbedKeepsRecord(f, k, exists) ==
    IF exists
    THEN [f EXCEPT !.staleTabs = Append(@, StaleTab(f.read[k], f.now))]
    ELSE f

\* lines 206-218: the host answers chrome.tabs.get for candidate k
Probed(f, k, exists) ==
    IF exists
    THEN [f EXCEPT !.staleTabs = Append(@, StaleTab(f.read[k], f.now))]
    ELSE [f EXCEPT !.tab_activity = Delete(@, k)]

\* the loop runs on to its next chrome.tabs.get, or to the storage.set
Looping(f) == [f EXCEPT !.pc = IF f.pending = << >> THEN "write" ELSE "probe"]

\* chrome.alarms.onAlarm fires for 'check-inactive-tabs': lines 178-193
AlarmEvent ==
    /\ Has(alarms, CheckAlarm)
    /\ Spawn(Frame("check", "read"))
    /\ UNCHANGED <<tabs, clock, tab_activity, stale_tabs, user_settings, badge, cap, horizon, alarms, library, detector>>

\* lines 193-204: storage.get resolves
CheckRead(f) ==
    /\ f \in Frames("check", "read")
    /\ LET thresholdMs == ThresholdMs(SettingsOrDefault(user_settings))
       IN Resume(f, Looping([f EXCEPT !.read = tab_activity,
                                      !.tab_activity = tab_activity,
                                      !.thresholdMs = thresholdMs,
                                      !.now = DateNow,
                                      !.pending = Candidates(tab_activity, DateNow, thresholdMs)]))
    /\ UNCHANGED <<tabs, clock, tab_activity, stale_tabs, user_settings, badge, cap, horizon, alarms, library, detector>>

\* lines 207-219: chrome.tabs.get resolves or rejects
CheckProbe(f) ==
    /\ f \in Frames("check", "probe")
    /\ Resume(f, Looping([Probed(f, Head(f.pending), IsOpen(Head(f.pending)))
                            EXCEPT !.pending = Tail(f.pending)]))
    /\ UNCHANGED <<tabs, clock, tab_activity, stale_tabs, user_settings, badge, cap, horizon, alarms, library, detector>>

\* a write that adds to the stored list
WrittenStaleTabsMerged(stored, staleTabs) == stored \o staleTabs

\* line 225: stale_tabs: staleTabs
WrittenStaleTabs(stored, staleTabs) == staleTabs

\* lines 223-226: storage.set resolves; data keeps the list it replaced
CheckWrite(f) ==
    /\ f \in Frames("check", "write")
    /\ tab_activity' = f.tab_activity
    /\ stale_tabs' = WrittenStaleTabs(stale_tabs, f.staleTabs)
    /\ Resume(f, [f EXCEPT !.pc = "badge", !.data = stale_tabs])
    /\ UNCHANGED <<tabs, clock, user_settings, badge, cap, horizon, alarms, library, detector>>

\* lines 229-234: staleTabs.length.toString(), or ''
BadgeText(staleTabs) == IF Len(staleTabs) > 0 THEN ToString(Len(staleTabs)) ELSE ""

\* lines 229-234: setBadgeText resolves
CheckBadge(f) ==
    /\ f \in Frames("check", "badge")
    /\ badge' = [badge EXCEPT !.text = BadgeText(f.staleTabs)]
    /\ Resume(f, [f EXCEPT !.pc = IF Len(f.staleTabs) > 0 THEN "color" ELSE "done"])
    /\ UNCHANGED <<tabs, clock, tab_activity, stale_tabs, user_settings, cap, horizon, alarms, library, detector>>

\* line 231: setBadgeBackgroundColor resolves
CheckColor(f) ==
    /\ f \in Frames("check", "color")
    /\ badge' = [badge EXCEPT !.color = "#F59E0B"]
    /\ Resume(f, [f EXCEPT !.pc = "done"])
    /\ UNCHANGED <<tabs, clock, tab_activity, stale_tabs, user_settings, cap, horizon, alarms, library, detector>>

checkForInactiveTabs ==
    \E f \in BagToSet(handlers) :
        CheckRead(f) \/ CheckProbe(f) \/ CheckWrite(f) \/ CheckBadge(f) \/ CheckColor(f)

----------------------------------------------------------------------------
(* syncCurrentTabs *)

\* a resync that creates records with no visit
NewRecordUnvisited(tab, now) ==
    [chrome_tab_id |-> tab.id, url |-> tab.url, title |-> TitleOrEmpty(tab),
     favicon_url |-> FaviconOrNull(tab), last_active_at |-> now,
     total_active_time_ms |-> 0, visit_count |-> 0, window_id |-> tab.windowId]

\* lines 465-474
NewRecord(tab, now) ==
    [chrome_tab_id |-> tab.id, url |-> tab.url, title |-> TitleOrEmpty(tab),
     favicon_url |-> FaviconOrNull(tab), last_active_at |-> now,
     total_active_time_ms |-> 0, visit_count |-> 1, window_id |-> tab.windowId]

\* a resync whose new records start with no visit counted
WithMissingUnvisited(m, queried, now) ==
    [k \in DOMAIN m \cup {t \in DOMAIN queried : ~Untrackable(queried[t])} |->
        IF Has(m, k) THEN m[k] ELSE NewRecordUnvisited(queried[k], now)]

\* lines 461-476: a record for every queried trackable tab that has none
WithMissing(m, queried, now) ==
    [k \in DOMAIN m \cup {t \in DOMAIN queried : ~Untrackable(queried[t])} |->
        IF Has(m, k) THEN m[k] ELSE NewRecord(queried[k], now)]

\* lines 479-484: no record of a tab id that was not queried
WithoutClosed(m, queried) == [k \in DOMAIN m \cap DOMAIN queried |-> m[k]]

SyncedMap(m, queried, now) == WithoutClosed(WithMissing(m, queried, now), queried)

\* line 456: chrome.tabs.query({}) resolves
SyncQuery(f) ==
    /\ f \in Frames("sync", "query")
    /\ Resume(f, [f EXCEPT !.pc = "read", !.queried = [t \in OpenIds |-> tabs[t]]])
    /\ UNCHANGED <<tabs, clock, tab_activity, stale_tabs, user_settings, badge, cap, horizon, alarms, library, detector>>

\* lines 457-486: storage.get resolves
SyncRead(f) ==
    /\ f \in Frames("sync", "read")
    /\ Resume(f, [f EXCEPT !.pc = "write", !.read = tab_activity, !.now = DateNow,
                           !.tab_activity = SyncedMap(tab_activity, f.queried, DateNow)])
    /\ UNCHANGED <<tabs, clock, tab_activity, stale_tabs, user_settings, badge, cap, horizon, alarms, library, detector>>

\* line 486: storage.set resolves
SyncWrite(f) ==
    /\ f \in Frames("sync", "write")
    /\ tab_activity' = f.tab_activity
    /\ Resume(f, [f EXCEPT !.pc = "done"])
    /\ UNCHANGED <<tabs, clock, stale_tabs, user_settings, badge, cap, horizon, alarms, library, detector>>

syncCurrentTabs ==
    \E f \in BagToSet(handlers) : SyncQuery(f) \/ SyncRead(f) \/ SyncWrite(f)

----------------------------------------------------------------------------
(* handleInstalled, handleStartup, initializeExtension, ensureAlarmsExist *)

\* what chrome.runtime.onInstalled reports as details.reason
Reasons == {"install", "update", "chrome_update"}

\* chrome.runtime.onInstalled fires: lines 38-50, up to the first await
InstalledEvent(reason) ==
    /\ Spawn([Frame("inst", IF reason = "install" THEN "init" ELSE "getCheck")
                 EXCEPT !.data = <<reason>>])
    /\ UNCHANGED <<tabs, clock, tab_activity, stale_tabs, user_settings, badge, cap, horizon, alarms, library, detector>>

\* chrome.runtime.onStartup fires: lines 53-56 and 76-78
StartupEvent ==
    /\ Spawn(Frame("sync", "getCheck"))
    /\ UNCHANGED <<tabs, clock, tab_activity, stale_tabs, user_settings, badge, cap, horizon, alarms, library, detector>>

\* lines 63-71: the one storage.set of initializeExtension resolves
InstalledInit(f) ==
    /\ f \in Frames("inst", "init")
    /\ user_settings' = Settings(DefaultThresholdHours)
    /\ tab_activity' = EmptyMap
    /\ stale_tabs' = << >>
    /\ saved_tabs' = << >>
    /\ folders' = << >>
    /\ Resume(f, [f EXCEPT !.pc = "getCheck"])
    /\ UNCHANGED <<tabs, clock, badge, cap, horizon, alarms, uuids, detector>>

handleInstalled ==
    \E f \in BagToSet(handlers) : InstalledInit(f)

\* the alarm a frame inside ensureAlarmsExist asks for or creates
AlarmAt(pc) == IF pc \in {"getCheck", "createCheck"} THEN CheckAlarm ELSE SyncAlarm

\* where the caller goes on once ensureAlarmsExist has returned: line 58 or 51
Ensured(f) == IF f.kind = "sync" THEN "query" ELSE "done"

\* lines 78-79 and 88-89: chrome.alarms.get resolves
EnsureGet(f) ==
    /\ f.pc \in {"getCheck", "getSync"}
    /\ Resume(f, [f EXCEPT !.pc =
            IF ~Has(alarms, AlarmAt(f.pc))
            THEN (IF f.pc = "getCheck" THEN "createCheck" ELSE "createSync")
            ELSE (IF f.pc = "getCheck" THEN "getSync" ELSE Ensured(f))])
    /\ UNCHANGED <<tabs, clock, tab_activity, stale_tabs, user_settings, badge, cap, horizon, alarms, library, detector>>

\* lines 80-84 and 90-94: chrome.alarms.create resolves; an alarm of that name
\* that is already scheduled is replaced
EnsureCreate(f) ==
    /\ f.pc \in {"createCheck", "createSync"}
    /\ alarms' = Put(alarms, AlarmAt(f.pc), AlarmInfo(AlarmAt(f.pc)))
    /\ Resume(f, [f EXCEPT !.pc = IF f.pc = "createCheck" THEN "getSync" ELSE Ensured(f)])
    /\ UNCHANGED <<tabs, clock, tab_activity, stale_tabs, user_settings, badge, cap, horizon, library, detector>>

ensureAlarmsExist ==
    \E f \in BagToSet(handlers) : EnsureGet(f) \/ EnsureCreate(f)

----------------------------------------------------------------------------
(* handleMessageAsync: GET_STALE_TABS *)

\* MessageResponse: {success, data?, error?}; a property that may be left out
\* is the sequence of its value, or the empty sequence
Success == [success |-> TRUE, data |-> << >>, error |-> << >>]
SuccessData(data) == [success |-> TRUE, data |-> <<data>>, error |-> << >>]
Failure(error) == [success |-> FALSE, data |-> << >>, error |-> <<error>>]

\* what a host call rejects with, or a statement throws: an Error
Error(message) == [isError |-> TRUE, message |-> message]

\* a catch that reports the request as done
CaughtAsSuccess(error) == Success

\* lines 336-341: the response of the catch
Caught(error) ==
    Failure(IF error.isError THEN error.message ELSE "Unknown error")

\* line 257: the promise resolves with response r and sendResponse is called
Respond(f, r) == [f EXCEPT !.pc = "done", !.responses = Append(@, r)]

\* a host or storage call of the request rejects with err, or a statement throws it
Raise(f, err) == [f EXCEPT !.raised = Append(@, err)]

\* lines 336-341: err is thrown inside the try and reaches its catch
Catch(f, err) == [Respond(Raise(f, err), Caught(err)) EXCEPT !.error = <<err>>]

\* chrome.runtime.onMessage fires with {type: 'GET_STALE_TABS'}: lines 251-267
GetStaleTabsMessage ==
    /\ Spawn(Frame("GET_STALE_TABS", "read"))
    /\ UNCHANGED <<tabs, clock, tab_activity, stale_tabs, user_settings, badge, cap, horizon, alarms, library, detector>>

\* lines 267-268: storage.get resolves; data is the response's data
GetStaleTabsRead(f) ==
    /\ f \in Frames("GET_STALE_TABS", "read")
    /\ Resume(f, [Respond(f, SuccessData(stale_tabs))
                    EXCEPT !.now = DateNow, !.data = stale_tabs])
    /\ UNCHANGED <<tabs, clock, tab_activity, stale_tabs, user_settings, badge, cap, horizon, alarms, library, detector>>

handleMessageAsync ==
    \E f \in BagToSet(handlers) : GetStaleTabsRead(f)

----------------------------------------------------------------------------
(* handleMessage, handleMessageAsync: every request type *)

\* crypto.randomUUID(): the n-th id handed out
Uuid(n) == "uuid-" \o ToString(n)

Message(type, payload) == [type |-> type, payload |-> payload]

\* lines 266-327: the cases of the switch
KnownTypes ==
    {"GET_STALE_TABS", "GET_TAB_ACTIVITY", "SAVE_TABS", "CLOSE_TABS", "SYNC_NOW",
     "GET_FOLDERS", "CREATE_FOLDER", "UPDATE_FOLDER", "DELETE_FOLDER",
     "GET_SAVED_TABS", "DELETE_SAVED_TAB", "RESTORE_TABS"}

\* the cases that read a property of message.payload, or hand it to the host
PayloadTypes ==
    {"SAVE_TABS", "CLOSE_TABS", "CREATE_FOLDER", "UPDATE_FOLDER", "DELETE_FOLDER",
     "DELETE_SAVED_TAB", "RESTORE_TABS"}

\* line 334
UnknownMessageType == Failure("Unknown message type")

\* reading a property of undefined, inside the try
TypeError == Error("Cannot read properties of undefined")
\* chrome.storage.local.get or set rejects
StorageError == Error("storage failed")
\* chrome.tabs.get or chrome.tabs.remove rejects
NoTabError == Error("No tab with id")
\* chrome.tabs.create rejects
CreateError == Error("tab not created")

\* lines 261-265 and the case's code up to its first await
Received(message) ==
    LET f == [Frame(message.type, "read") EXCEPT !.message = message, !.before = Store]
    IN IF message.type \notin KnownTypes THEN Respond(f, UnknownMessageType)
       ELSE IF message.type \in PayloadTypes /\ message.payload = << >>
       THEN Catch(f, TypeError)
       ELSE IF message.type = "SAVE_TABS"
       THEN [f EXCEPT !.pending = message.payload[1].tabIds]
       ELSE IF message.type = "CLOSE_TABS"
       THEN [f EXCEPT !.pc = "remove", !.pending = message.payload[1]]
       ELSE IF message.type = "SYNC_NOW"
       THEN [f EXCEPT !.pc = "sync"]
       ELSE f

\* chrome.runtime.onMessage fires: lines 251-265
MessageEvent(message) ==
    /\ Spawn(Received(message))
    /\ UNCHANGED <<tabs, clock, tab_activity, stale_tabs, user_settings, badge, cap, horizon, alarms, library, detector>>

\* chrome.storage.local.set(items): the value of a key afterwards
SetKey(old, items, key) == IF key \in DOMAIN items THEN items[key] ELSE old

\* lines 271-273, 293-295, 316-318: storage.get resolves
GetKeyRead(f) ==
    /\ f.pc = "read"
    /\ f.kind \in {"GET_TAB_ACTIVITY", "GET_FOLDERS", "GET_SAVED_TABS"}
    /\ Resume(f, Respond(f, SuccessData(
            IF f.kind = "GET_TAB_ACTIVITY" THEN tab_activity
            ELSE IF f.kind = "GET_FOLDERS" THEN folders ELSE saved_tabs)))
    /\ UNCHANGED <<tabs, clock, tab_activity, stale_tabs, user_settings, badge, cap, horizon, alarms, library, detector>>

\* x || null
OrNull(x) == IF x = Undefined THEN Null ELSE x

\* lines 358-366
SavedTab(id, tab, now, folderId) ==
    [id |-> id, url |-> tab.url, title |-> TitleOrEmpty(tab),
     favicon_url |-> FaviconOrNull(tab), created_at |-> ToISOString(now),
     session_id |-> Null, folder_id |-> OrNull(folderId)]

\* a saveTabs that stores the activity map it never read
SaveTabsWritesActivity(saved) == << [saved_tabs |-> saved, tab_activity |-> EmptyMap] >>

\* line 372: the storage.set calls of saveTabs
SaveTabsWrites(saved) == << [saved_tabs |-> saved] >>

\* lines 353-372: the loop runs on to its next chrome.tabs.get, or to the set
SaveLooping(f) ==
    IF f.pending = << >>
    THEN [f EXCEPT !.pc = "write", !.writes = SaveTabsWrites(f.saved_tabs)]
    ELSE [f EXCEPT !.pc = "probe"]

\* lines 350-351: storage.get resolves
SaveTabsRead(f) ==
    /\ f \in Frames("SAVE_TABS", "read")
    /\ Resume(f, SaveLooping([f EXCEPT !.saved_tabs = saved_tabs]))
    /\ UNCHANGED <<tabs, clock, tab_activity, stale_tabs, user_settings, badge, cap, horizon, alarms, library, detector>>

\* lines 354-369: chrome.tabs.get resolves or rejects
SaveTabsProbe(f) ==
    /\ f \in Frames("SAVE_TABS", "probe")
    /\ LET t == Head(f.pending)
           g == [f EXCEPT !.pending = Tail(f.pending)]
       IN IF IsOpen(t) /\ tabs[t].url # UndefinedUrl
          THEN /\ uuids < MaxUuids
               /\ uuids' = uuids + 1
               /\ Resume(f, SaveLooping([g EXCEPT !.saved_tabs =
                      Append(@, SavedTab(Uuid(uuids + 1), tabs[t], DateNow,
                                         f.message.payload[1].folderId))]))
          ELSE /\ uuids' = uuids
               /\ Resume(f, SaveLooping(IF IsOpen(t) THEN g ELSE Raise(g, NoTabError)))
    /\ UNCHANGED <<tabs, clock, tab_activity, stale_tabs, user_settings, badge, cap, horizon, alarms, folders, saved_tabs, detector>>

\* chrome.tabs.remove(tabIds) closes the tabs in the order given and stops at
\* the first id that is not an open tab: how many it closes
Removable(ids) ==
    LET ok(i) == IsOpen(ids[i]) /\ \A j \in 1..(i - 1) : ids[j] # ids[i]
    IN CHOOSE k \in 0..Len(ids) :
          /\ \A i \in 1..k : ok(i)
          /\ k < Len(ids) => ~ok(k + 1)

\* lines 283-285: chrome.tabs.remove resolves or rejects; chrome.tabs.onRemoved
\* has fired for every tab it closed (line 22)
CloseTabsRemove(f) ==
    /\ f \in Frames("CLOSE_TABS", "remove")
    /\ LET ids == f.pending
           k == Removable(ids)
           closed == {ids[i] : i \in 1..k}
       IN /\ tabs' = [t \in TabIds |-> IF t \in closed THEN Closed ELSE tabs[t]]
          /\ handlers' = ((handlers (-) SetToBag({f}))
                            (+) SetToBag({IF k = Len(ids) THEN Respond(f, Success)
                                          ELSE Catch(f, NoTabError)}))
                          (+) SetToBag({[Frame("rem", "read") EXCEPT !.tabId = t] : t \in closed})
    /\ UNCHANGED <<clock, tab_activity, stale_tabs, user_settings, badge, cap, horizon, alarms, library, detector>>

\* lines 242-245 and 289-290: performCloudSync resolves
SyncNow(f) ==
    /\ f \in Frames("SYNC_NOW", "sync")
    /\ Resume(f, Respond(f, Success))
    /\ UNCHANGED <<tabs, clock, tab_activity, stale_tabs, user_settings, badge, cap, horizon, alarms, library, detector>>

\* lines 383-390
NewFolder(id, payload, position, now) ==
    [id |-> id, name |-> payload.name, icon |-> OrNull(payload.icon),
     color |-> OrNull(payload.color), position |-> position,
     created_at |-> ToISOString(now)]

\* lines 380-393: storage.get resolves
CreateFolderRead(f) ==
    /\ f \in Frames("CREATE_FOLDER", "read")
    /\ uuids < MaxUuids
    /\ uuids' = uuids + 1
    /\ Resume(f, [f EXCEPT !.pc = "write", !.folders = folders,
                           !.writes = << [folders |-> Append(folders,
                               NewFolder(Uuid(uuids + 1), f.message.payload[1],
                                         Len(folders), DateNow))] >>])
    /\ UNCHANGED <<tabs, clock, tab_activity, stale_tabs, user_settings, badge, cap, horizon, alarms, folders, saved_tabs, detector>>

\* line 401: folders.findIndex((f) => f.id === id)
FindIndex(list, id) ==
    IF \E i \in 1..Len(list) : list[i].id = id
    THEN CHOOSE i \in 1..Len(list) :
            list[i].id = id /\ \A j \in 1..(i - 1) : list[j].id # id
    ELSE -1

\* line 403: { ...folders[index], ...updates }
Merged(folder, updates) ==
    [k \in DOMAIN folder \cup DOMAIN updates |->
        IF k \in DOMAIN updates THEN updates[k] ELSE folder[k]]

\* lines 398-404: storage.get resolves
UpdateFolderRead(f) ==
    /\ f \in Frames("UPDATE_FOLDER", "read")
    /\ LET index == FindIndex(folders, f.message.payload[1].id)
       IN IF index # -1
          THEN Resume(f, [f EXCEPT !.pc = "write", !.folders = folders,
                  !.writes = << [folders |-> [folders EXCEPT ![index] =
                                    Merged(@, f.message.payload[1].updates)]] >>])
          ELSE Resume(f, Respond([f EXCEPT !.folders = folders], Success))
    /\ UNCHANGED <<tabs, clock, tab_activity, stale_tabs, user_settings, badge, cap, horizon, alarms, library, detector>>

\* line 415: folders.filter((f) => f.id !== id)
WithoutId(list, id) ==
    LET Other(x) == x.id # id IN SelectSeq(list, Other)

\* lines 418-420: the tabs of the folder become unfiled
Unfiled(list, id) ==
    [i \in 1..Len(list) |->
        IF list[i].folder_id = id THEN [list[i] EXCEPT !.folder_id = Null] ELSE list[i]]

\* a deleteFolder that stores the two keys one after the other
DeleteFolderWritesApart(stored_folders, stored_tabs, id) ==
    << [folders |-> WithoutId(stored_folders, id)],
       [saved_tabs |-> Unfiled(stored_tabs, id)] >>

\* lines 422-425: the storage.set calls of deleteFolder
DeleteFolderWrites(stored_folders, stored_tabs, id) ==
    << [folders |-> WithoutId(stored_folders, id),
        saved_tabs |-> Unfiled(stored_tabs, id)] >>

\* lines 410-420: storage.get resolves
DeleteFolderRead(f) ==
    /\ f \in Frames("DELETE_FOLDER", "read")
    /\ Resume(f, [f EXCEPT !.pc = "write", !.folders = folders, !.saved_tabs = saved_tabs,
                           !.writes = DeleteFolderWrites(folders, saved_tabs,
                                                         f.message.payload[1].id)])
    /\ UNCHANGED <<tabs, clock, tab_activity, stale_tabs, user_settings, badge, cap, horizon, alarms, library, detector>>

\* lines 430-433: storage.get resolves
DeleteSavedTabRead(f) ==
    /\ f \in Frames("DELETE_SAVED_TAB", "read")
    /\ Resume(f, [f EXCEPT !.pc = "write", !.saved_tabs = saved_tabs,
                           !.writes = << [saved_tabs |->
                               WithoutId(saved_tabs, f.message.payload[1].id)] >>])
    /\ UNCHANGED <<tabs, clock, tab_activity, stale_tabs, user_settings, badge, cap, horizon, alarms, library, detector>>

\* line 442: saved_tabs.filter((t) => tabIds.includes(t.id))
TabsToRestore(list, tabIds) ==
    LET Asked(x) == \E i \in 1..Len(tabIds) : tabIds[i] = x.id
    IN SelectSeq(list, Asked)

\* the loop of restoreTabs runs on to its next chrome.tabs.create, or returns
RestoreLooping(f) ==
    IF f.pending = << >> THEN Respond(f, Success) ELSE [f EXCEPT !.pc = "create"]

\* lines 439-445: storage.get resolves
RestoreTabsRead(f) ==
    /\ f \in Frames("RESTORE_TABS", "read")
    /\ Resume(f, RestoreLooping([f EXCEPT !.saved_tabs = saved_tabs,
            !.pending = TabsToRestore(saved_tabs, f.message.payload[1].tabIds)]))
    /\ UNCHANGED <<tabs, clock, tab_activity, stale_tabs, user_settings, badge, cap, horizon, alarms, library, detector>>

\* line 446: chrome.tabs.create resolves: the host opens a tab on the saved
\* url under its next id
RestoreTabsCreate(f) ==
    /\ f \in Frames("RESTORE_TABS", "create")
    /\ \E t \in TabIds :
          /\ tabs[t] = Unborn
          /\ \A u \in TabIds : u < t => tabs[u] # Unborn
          /\ tabs' = [tabs EXCEPT ![t] =
                Tab(t, Page(Head(f.pending).url, Undefined, Undefined), 1)]
    /\ Resume(f, RestoreLooping([f EXCEPT !.pending = Tail(f.pending)]))
    /\ UNCHANGED <<clock, tab_activity, stale_tabs, user_settings, badge, cap, horizon, alarms, library, detector>>

\* lines 372, 393, 404, 422-425, 434: the next storage.set of the request
\* resolves, and with the last one the request is answered
MessageWrite(f) ==
    /\ f.pc = "write"
    /\ f.kind \in KnownTypes
    /\ LET items == Head(f.writes)
       IN /\ tab_activity' = SetKey(tab_activity, items, "tab_activity")
          /\ stale_tabs' = SetKey(stale_tabs, items, "stale_tabs")
          /\ user_settings' = SetKey(user_settings, items, "user_settings")
          /\ folders' = SetKey(folders, items, "folders")
          /\ saved_tabs' = SetKey(saved_tabs, items, "saved_tabs")
    /\ LET g == [f EXCEPT !.writes = Tail(f.writes)]
       IN Resume(f, IF g.writes = << >> THEN Respond(g, Success) ELSE g)
    /\ UNCHANGED <<tabs, clock, badge, cap, horizon, alarms, uuids, detector>>

\* chrome.storage.local.get or set rejects and changes nothing: lines 336-341
StorageRejects(f) ==
    /\ f.pc \in {"read", "write"}
    /\ f.kind \in KnownTypes
    /\ Resume(f, Catch(f, StorageError))
    /\ UNCHANGED <<tabs, clock, tab_activity, stale_tabs, user_settings, badge, cap, horizon, alarms, library, detector>>

\* chrome.tabs.create rejects: lines 336-341
CreateRejects(f) ==
    /\ f \in Frames("RESTORE_TABS", "create")
    /\ Resume(f, Catch(f, CreateError))
    /\ UNCHANGED <<tabs, clock, tab_activity, stale_tabs, user_settings, badge, cap, horizon, alarms, library, detector>>

\* lines 261-343
MessageRouter ==
    \E f \in BagToSet(handlers) :
        \/ GetStaleTabsRead(f)
        \/ GetKeyRead(f)
        \/ SaveTabsRead(f)
        \/ SaveTabsProbe(f)
        \/ CloseTabsRemove(f)
        \/ SyncNow(f)
        \/ CreateFolderRead(f)
        \/ UpdateFolderRead(f)
        \/ DeleteFolderRead(f)
        \/ DeleteSavedTabRead(f)
        \/ RestoreTabsRead(f)
        \/ RestoreTabsCreate(f)
        \/ MessageWrite(f)
        \/ StorageRejects(f)
        \/ CreateRejects(f)

----------------------------------------------------------------------------
(* Strings *)

\* text.includes(keyword)
Includes(text, keyword) ==
    \E i \in 1..(Len(text) - Len(keyword) + 1) :
        SubSeq(text, i, i + Len(keyword) - 1) = keyword

UpperCase == "ABCDEFGHIJKLMNOPQRSTUVWXYZ"
LowerCase == "abcdefghijklmnopqrstuvwxyz"

\* the character of alphabet to that stands where c stands in alphabet from
Mapped(c, from, to) ==
    IF \E i \in 1..Len(from) : SubSeq(from, i, i) = c
    THEN LET i == CHOOSE i \in 1..Len(from) : SubSeq(from, i, i) = c
         IN SubSeq(to, i, i)
    ELSE c

\* text.toLowerCase()
RECURSIVE ToLowerCase(_)
ToLowerCase(text) ==
    IF text = "" THEN ""
    ELSE Mapped(SubSeq(text, 1, 1), UpperCase, LowerCase)
            \o ToLowerCase(SubSeq(text, 2, Len(text)))

\* text.charAt(0).toUpperCase() + text.slice(1)
Capitalized(text) ==
    IF text = "" THEN ""
    ELSE Mapped(SubSeq(text, 1, 1), LowerCase, UpperCase) \o SubSeq(text, 2, Len(text))

\* text.split('.')[0]
BeforeDot(text) ==
    IF Includes(text, ".")
    THEN LET i == CHOOSE i \in 1..Len(text) :
                    /\ SubSeq(text, i, i) = "."
                    /\ \A j \in 1..(i - 1) : SubSeq(text, j, j) # "."
         IN SubSeq(text, 1, i - 1)
    ELSE text

\* a url as the string the store holds; a string that is no url has no scheme
\* and is all in path
Href(url) == IF url.scheme = "" THEN url.path ELSE url.scheme \o "://" \o url.host \o url.path

\* array.sort(compare) for a compare that subtracts keys: the elements in
\* ascending order of their keys, elements of equal keys in the order they had
StableSort(array, keys) ==
    LET rank == [i \in 1..Len(array) |->
                    Cardinality({j \in 1..Len(array) :
                        keys[j] < keys[i] \/ (keys[j] = keys[i] /\ j < i)}) + 1]
    IN [r \in 1..Len(array) |-> array[CHOOSE i \in 1..Len(array) : rank[i] = r]]

----------------------------------------------------------------------------
(* Session Detector: detectSmartSessions *)

\* lines 3-14: the topics in the order of the table, each with its keywords
TOPIC_KEYWORDS ==
    << [topic |-> "documentation",
        keywords |-> <<"docs", "documentation", "api", "reference", "guide", "manual">>],
       [topic |-> "tutorial",
        keywords |-> <<"tutorial", "learn", "course", "lesson", "how-to", "getting-started">>],
       [topic |-> "development",
        keywords |-> <<"github", "gitlab", "bitbucket", "code", "repository",
                       "pull-request", "issue">>],
       [topic |-> "shopping",
        keywords |-> <<"cart", "checkout", "buy", "shop", "store", "product", "amazon", "ebay">>],
       [topic |-> "social",
        keywords |-> <<"twitter", "facebook", "linkedin", "reddit", "instagram", "tiktok">>],
       [topic |-> "video",
        keywords |-> <<"youtube", "vimeo", "netflix", "twitch", "video", "watch">>],
       [topic |-> "news",
        keywords |-> <<"news", "article", "blog", "post", "medium">>],
       [topic |-> "email",
        keywords |-> <<"mail", "inbox", "gmail", "outlook">>],
       [topic |-> "design",
        keywords |-> <<"figma", "sketch", "design", "canva", "adobe">>],
       [topic |-> "productivity",
        keywords |-> <<"notion", "trello", "asana", "jira", "slack", "calendar">>] >>

\* lines 16-21
TIME_OF_DAY_NAMES ==
    [morning |-> "Morning", afternoon |-> "Afternoon", evening |-> "Evening",
     night |-> "Night"]

\* line 24: new Date(timestamp).getHours(), the hour of local time
GetHours(timestamp) == ((timestamp + timezone) % (24 * HourMs)) \div HourMs

\* an afternoon that begins at one o'clock
getTimeOfDayLateNoon(timestamp) ==
    LET hour == GetHours(timestamp)
    IN IF hour >= 5 /\ hour < 13 THEN "morning"
       ELSE IF hour >= 13 /\ hour < 17 THEN "afternoon"
       ELSE IF hour >= 17 /\ hour < 21 THEN "evening"
       ELSE "night"

\* lines 23-29
getTimeOfDay(timestamp) ==
    LET hour == GetHours(timestamp)
    IN IF hour >= 5 /\ hour < 12 THEN "morning"
       ELSE IF hour >= 12 /\ hour < 17 THEN "afternoon"
       ELSE IF hour >= 17 /\ hour < 21 THEN "evening"
       ELSE "night"

\* lines 31-37: the hostname without a leading www., or 'unknown'
extractDomain(url) ==
    IF url.scheme = "" THEN "unknown"
    ELSE IF Len(url.host) >= 4 /\ SubSeq(url.host, 1, 4) = "www."
    THEN SubSeq(url.host, 5, Len(url.host))
    ELSE url.host

\* lines 43-49: the topics of the table whose keywords the text includes, in
\* the table's order
TopicsIn(searchText) ==
    LET Matches(entry) ==
            \E k \in 1..Len(entry.keywords) : Includes(searchText, entry.keywords[k])
        matched == SelectSeq(TOPIC_KEYWORDS, Matches)
    IN [i \in 1..Len(matched) |-> matched[i].topic]

\* what the tabs of a snapshot show
SnapshotPages ==
    { Page(Url("https", "github.com", "/acme/app/pull/7"), "Fix Login", Null),
      Page(Url("https", "www.github.com", "/acme/docs"), "API Guide", Null),
      Page(Url("https", "example.org", "/"), "Home", Null) }

\* line 41: `${tab.url} ${tab.title}`.toLowerCase()
SearchText(url, title) == ToLowerCase(Href(url) \o " " \o title)

\* what the tabs of a session to name show: a file, and pages of one topic, of
\* four topics and of none
NamingPages ==
    { Page(Url("https", "github.com", "/acme/app/pull/7"), "Fix Login", Null),
      Page(Url("https", "example.org", "/docs"), "Home", Null),
      Page(Url("https", "medium.com", "/shop/video-course"), "Watch", Null),
      Page(Url("https", "www.example.org", "/"), "Home", Null),
      Page(Url("file", "", "/a.txt"), "a", Null) }

\* the topics of the pages of the snapshots, worked out once
TopicsOfPage ==
    [p \in SnapshotPages \cup NamingPages |-> TopicsIn(SearchText(p.url, p.title))]

\* lines 39-50
extractTopicsFromTab(tab) ==
    LET p == Page(tab.url, tab.title, Null)
    IN IF p \in DOMAIN TopicsOfPage THEN TopicsOfPage[p]
       ELSE TopicsIn(SearchText(tab.url, tab.title))

\* the keys of a Map in the order they were first set, when the keys are set in
\* the order of the sequence
RECURSIVE InsertionOrder(_)
InsertionOrder(keys) ==
    IF keys = << >> THEN << >>
    ELSE LET before == InsertionOrder(SubSeq(keys, 1, Len(keys) - 1))
             last == keys[Len(keys)]
         IN IF \E i \in 1..Len(before) : before[i] = last THEN before
            ELSE Append(before, last)

\* the sequences of a sequence, one after the other
RECURSIVE Flattened(_)
Flattened(lists) ==
    IF lists = << >> THEN << >> ELSE Head(lists) \o Flattened(Tail(lists))

\* how often x stands in the sequence
Count(list, x) == Cardinality({i \in 1..Len(list) : list[i] = x})

\* lines 52-66: the three topics most tabs match
extractTopicsFromTabs(list) ==
    LET all == Flattened([i \in 1..Len(list) |-> extractTopicsFromTab(list[i])])
        topics == InsertionOrder(all)
        sorted == StableSort(topics, [i \in 1..Len(topics) |-> 0 - Count(all, topics[i])])
    IN SubSeq(sorted, 1, IF Len(sorted) < 3 THEN Len(sorted) ELSE 3)

\* a domain of one tab may be the dominant one
FrequentOnce(count) == count >= 1

\* line 80: count >= 2
Frequent(count) == count >= 2

\* lines 68-87: the first domain, in the order the tabs bring them, that the
\* most tabs are on, if these are at least 2
getDominantDomain(list) ==
    LET all == [i \in 1..Len(list) |-> extractDomain(list[i].url)]
        domains == InsertionOrder(all)
        domainCounts == [i \in 1..Len(domains) |-> Count(all, domains[i])]
        Most(i) == /\ Frequent(domainCounts[i])
                   /\ \A j \in 1..Len(domains) :
                         /\ domainCounts[j] <= domainCounts[i]
                         /\ j < i => domainCounts[j] < domainCounts[i]
    IN IF \E i \in 1..Len(domains) : Most(i)
       THEN domains[CHOOSE i \in 1..Len(domains) : Most(i)]
       ELSE Null

\* lines 89-105; line 99 takes the empty string as it takes null
generateSessionName(list, startTime) ==
    LET timeOfDay == TIME_OF_DAY_NAMES[getTimeOfDay(startTime)]
        topics == extractTopicsFromTabs(list)
        dominantDomain == getDominantDomain(list)
    IN IF Len(topics) > 0 THEN timeOfDay \o " " \o Capitalized(topics[1])
       ELSE IF dominantDomain # Null /\ dominantDomain # ""
       THEN timeOfDay \o " " \o Capitalized(BeforeDot(dominantDomain))
       ELSE timeOfDay \o " Session"

\* line 107
SESSION_GAP_MS == 30 * 60 * 1000

\* a createSession that ends the session where it starts
createSessionEndsAtStart(list, startTime, endTime) ==
    LET topics == extractTopicsFromTabs(list)
        dominantDomain == getDominantDomain(list)
    IN [id |-> "session-" \o ToString(startTime),
        name |-> generateSessionName(list, startTime),
        tabs |-> list,
        start_time |-> ToISOString(startTime),
        end_time |-> ToISOString(startTime),
        auto_generated |-> TRUE,
        topic_tags |-> topics,
        dominant_domain |-> dominantDomain]

\* lines 151-165
createSession(list, startTime, endTime) ==
    LET topics == extractTopicsFromTabs(list)
        dominantDomain == getDominantDomain(list)
    IN [id |-> "session-" \o ToString(startTime),
        name |-> generateSessionName(list, startTime),
        tabs |-> list,
        start_time |-> ToISOString(startTime),
        end_time |-> ToISOString(endTime),
        auto_generated |-> TRUE,
        topic_tags |-> topics,
        dominant_domain |-> dominantDomain]

\* lines 131-138
SmartSessionTab(tab) ==
    [chrome_tab_id |-> tab.chrome_tab_id, url |-> tab.url, title |-> tab.title,
     favicon_url |-> tab.favicon_url,
     first_seen_at |-> tab.last_active_at - tab.total_active_time_ms,
     last_active_at |-> tab.last_active_at]

\* a window of an hour
GapDetectedLate(prevTab, tab) ==
    tab.last_active_at - prevTab.last_active_at > 2 * SESSION_GAP_MS

\* line 121
GapDetected(prevTab, tab) ==
    tab.last_active_at - prevTab.last_active_at > SESSION_GAP_MS

\* a session of one tab is kept
EmittedAlone(currentSessionTabs) == Len(currentSessionTabs) >= 1

\* lines 123 and 142
Emitted(currentSessionTabs) == Len(currentSessionTabs) >= 2

\* lines 123-126 and 142-146: the sessions with the finished one, if it is kept
Finalized(sessions, currentSessionTabs, sessionStartTime, endTime) ==
    IF Emitted(currentSessionTabs)
    THEN Append(sessions, createSession(currentSessionTabs, sessionStartTime, endTime))
    ELSE sessions

\* lines 117-146: the loop from index i on, and the last session
RECURSIVE Sessionized(_, _, _, _, _)
Sessionized(sortedTabs, i, sessions, currentSessionTabs, sessionStartTime) ==
    IF i > Len(sortedTabs)
    THEN Finalized(sessions, currentSessionTabs, sessionStartTime,
                   sortedTabs[Len(sortedTabs)].last_active_at)
    ELSE LET tab == sortedTabs[i]
         IN IF i > 1 /\ GapDetected(sortedTabs[i - 1], tab)
            THEN Sessionized(sortedTabs, i + 1,
                    Finalized(sessions, currentSessionTabs, sessionStartTime,
                              sortedTabs[i - 1].last_active_at),
                    <<SmartSessionTab(tab)>>, tab.last_active_at)
            ELSE Sessionized(sortedTabs, i + 1, sessions,
                    Append(currentSessionTabs, SmartSessionTab(tab)), sessionStartTime)

\* line 112: [...tabs].sort((a, b) => a.last_active_at - b.last_active_at)
SortedTabs(list) == StableSort(list, [i \in 1..Len(list) |-> list[i].last_active_at])

\* a detector that returns the sessions in the order it found them
detectSmartSessionsAsFound(list) ==
    IF Len(list) = 0 THEN << >>
    ELSE LET sortedTabs == SortedTabs(list)
         IN Sessionized(sortedTabs, 1, << >>, << >>, sortedTabs[1].last_active_at)

\* lines 109-149
detectSmartSessions(list) ==
    IF Len(list) = 0 THEN << >>
    ELSE LET sortedTabs == SortedTabs(list)
             sessions == Sessionized(sortedTabs, 1, << >>, << >>, sortedTabs[1].last_active_at)
         IN StableSort(sessions,
                [i \in 1..Len(sessions) |-> 0 - GetTime(sessions[i].start_time)])

\* a detector that sorts the array it is given
TabsAfterDetectSorted(list) == SortedTabs(list)

\* line 112: the array the caller passed, after the call; the sort is of a copy
TabsAfterDetect(list) == list

\* the caller runs detectSmartSessions on the snapshot it holds
Detect ==
    /\ Len(runs) < MaxRuns
    /\ runs' = Append(runs, [given |-> snapshot, sessions |-> detectSmartSessions(snapshot)])
    /\ snapshot' = TabsAfterDetect(snapshot)
    /\ UNCHANGED <<tabs, clock, tab_activity, stale_tabs, user_settings, badge, handlers, cap, horizon, alarms, library, timezone>>

----------------------------------------------------------------------------
(* Group Detector: src/shared/lib/tab-grouping.ts *)

\* lines 3-22
DOMAIN_COLORS ==
    ("github.com" :> "#24292e") @@ ("stackoverflow.com" :> "#f48024") @@
    ("google.com" :> "#4285f4") @@ ("youtube.com" :> "#ff0000") @@
    ("twitter.com" :> "#1da1f2") @@ ("x.com" :> "#000000") @@
    ("linkedin.com" :> "#0077b5") @@ ("reddit.com" :> "#ff4500") @@
    ("notion.so" :> "#000000") @@ ("figma.com" :> "#f24e1e") @@
    ("slack.com" :> "#4a154b") @@ ("discord.com" :> "#5865f2") @@
    ("docs.google.com" :> "#4285f4") @@ ("drive.google.com" :> "#1a73e8") @@
    ("mail.google.com" :> "#ea4335") @@ ("amazon.com" :> "#ff9900") @@
    ("netflix.com" :> "#e50914") @@ ("spotify.com" :> "#1db954")

\* lines 24-28
DEFAULT_COLORS ==
    << "#6366f1", "#8b5cf6", "#d946ef", "#ec4899",
       "#f43f5e", "#f97316", "#eab308", "#84cc16",
       "#22c55e", "#14b8a6", "#06b6d4", "#0ea5e9" >>

\* lines 3 and 48: the tables are object literals, which inherit the properties
\* of Object.prototype; of their names, these can be a hostname (hostnames are
\* in lower case).  The values are a function and an object, written here as
\* the strings they convert to.
ObjectPrototype ==
    ("constructor" :> "function Object() { [native code] }") @@
    ("__proto__" :> "[object Object]")

\* lines 31 and 65: table[key], own or inherited, or undefined
Lookup(table, key) ==
    IF key \in DOMAIN table THEN table[key]
    ELSE IF key \in DOMAIN ObjectPrototype THEN ObjectPrototype[key]
    ELSE Undefined

Digits == "0123456789"

\* line 34: char.charCodeAt(0), for the characters of a hostname
CharCodeAt(char) ==
    IF Includes(LowerCase, char)
    THEN 96 + (CHOOSE i \in 1..Len(LowerCase) : SubSeq(LowerCase, i, i) = char)
    ELSE IF Includes(Digits, char)
    THEN 47 + (CHOOSE i \in 1..Len(Digits) : SubSeq(Digits, i, i) = char)
    ELSE IF char = "-" THEN 45
    ELSE IF char = "." THEN 46
    ELSE 95

\* line 34: the sum of the character codes
RECURSIVE Hash(_)
Hash(domain) ==
    IF domain = "" THEN 0
    ELSE CharCodeAt(SubSeq(domain, 1, 1)) + Hash(SubSeq(domain, 2, Len(domain)))

\* lines 30-36
getDomainColor(domain) ==
    IF Lookup(DOMAIN_COLORS, domain) # Undefined THEN Lookup(DOMAIN_COLORS, domain)
    ELSE DEFAULT_COLORS[(Hash(domain) % Len(DEFAULT_COLORS)) + 1]

\* lines 48-64
nameMap ==
    ("github.com" :> "GitHub") @@ ("stackoverflow.com" :> "Stack Overflow") @@
    ("google.com" :> "Google") @@ ("youtube.com" :> "YouTube") @@
    ("twitter.com" :> "Twitter") @@ ("x.com" :> "X") @@
    ("linkedin.com" :> "LinkedIn") @@ ("reddit.com" :> "Reddit") @@
    ("notion.so" :> "Notion") @@ ("figma.com" :> "Figma") @@
    ("slack.com" :> "Slack") @@ ("discord.com" :> "Discord") @@
    ("docs.google.com" :> "Google Docs") @@ ("drive.google.com" :> "Google Drive") @@
    ("mail.google.com" :> "Gmail")

\* lines 47-66
getDomainDisplayName(domain) ==
    IF Lookup(nameMap, domain) # Undefined THEN Lookup(nameMap, domain)
    ELSE Capitalized(BeforeDot(domain))

\* lines 87 and 127: sort((a, b) => b.last_active_at - a.last_active_at)
ByRecency(list) == StableSort(list, [i \in 1..Len(list) |-> 0 - list[i].last_active_at])

\* lines 94, 134 and 145: sort((a, b) => b.tab_count - a.tab_count)
BySize(groups) == StableSort(groups, [i \in 1..Len(groups) |-> 0 - groups[i].tab_count])

\* a bucket is emitted when it has more tabs than minGroupSize
GroupedAbove(domainTabs, minGroupSize) == Len(domainTabs) > minGroupSize

\* line 82
Grouped(domainTabs, minGroupSize) == Len(domainTabs) >= minGroupSize

\* lines 68-95; extractDomain of lines 38-45 is the one of the Session Detector
detectTabGroups(list, minGroupSize) ==
    LET domainMap == InsertionOrder([i \in 1..Len(list) |-> extractDomain(list[i].url)])
        TabsOf(domain) == SelectSeq(list, LAMBDA tab : extractDomain(tab.url) = domain)
        emitted == SelectSeq(domainMap, LAMBDA domain : Grouped(TabsOf(domain), minGroupSize))
    IN BySize([k \in 1..Len(emitted) |->
            [id |-> "group-" \o emitted[k],
             name |-> getDomainDisplayName(emitted[k]),
             domain |-> emitted[k],
             tabs |-> ByRecency(TabsOf(emitted[k])),
             tab_count |-> Len(TabsOf(emitted[k])),
             color |-> getDomainColor(emitted[k])]])

\* line 104: pathname.split('/').filter(Boolean)
RECURSIVE PathParts(_)
PathParts(pathname) ==
    IF pathname = "" THEN << >>
    ELSE IF SubSeq(pathname, 1, 1) = "/" THEN PathParts(SubSeq(pathname, 2, Len(pathname)))
    ELSE LET rest == SubSeq(pathname, 2, Len(pathname))
             parts == PathParts(rest)
         IN IF rest = "" \/ SubSeq(rest, 1, 1) = "/"
            THEN <<SubSeq(pathname, 1, 1)>> \o parts
            ELSE <<SubSeq(pathname, 1, 1) \o Head(parts)>> \o Tail(parts)

\* any host that is github.com once www. is taken off
OnGitHubOrWww(url) == url.scheme # "" /\ extractDomain(url) = "github.com"

\* lines 102-103: the string is a url and its hostname is github.com
OnGitHub(url) == url.scheme # "" /\ url.host = "github.com"

\* lines 104-106: the key of the project the tab belongs to, if it belongs to one
ProjectKeys(tab) ==
    LET pathParts == PathParts(tab.url.path)
    IN IF OnGitHub(tab.url) /\ Len(pathParts) >= 2
       THEN <<"github:" \o pathParts[1] \o "/" \o pathParts[2]>>
       ELSE << >>

\* line 122: text.replace(pattern, by), which replaces the first occurrence
ReplaceFirst(text, pattern, by) ==
    IF Includes(text, pattern)
    THEN LET i == CHOOSE i \in 1..Len(text) :
                    /\ SubSeq(text, i, i + Len(pattern) - 1) = pattern
                    /\ \A j \in 1..(i - 1) : SubSeq(text, j, j + Len(pattern) - 1) # pattern
         IN SubSeq(text, 1, i - 1) \o by \o SubSeq(text, i + Len(pattern), Len(text))
    ELSE text

\* lines 97-135
detectProjectGroups(list) ==
    LET projectMap == InsertionOrder(Flattened([i \in 1..Len(list) |-> ProjectKeys(list[i])]))
        TabsOf(projectKey) == SelectSeq(list, LAMBDA tab : ProjectKeys(tab) = <<projectKey>>)
        emitted == SelectSeq(projectMap, LAMBDA projectKey : Len(TabsOf(projectKey)) >= 2)
    IN BySize([k \in 1..Len(emitted) |->
            [id |-> "project-" \o emitted[k],
             name |-> ReplaceFirst(emitted[k], "github:", ""),
             domain |-> "github.com",
             tabs |-> ByRecency(TabsOf(emitted[k])),
             tab_count |-> Len(TabsOf(emitted[k])),
             color |-> DOMAIN_COLORS["github.com"]]])

\* every domain group is kept beside the project groups
KeptAlways(g, projectDomains) == TRUE

\* line 143
Kept(g, projectDomains) == ~(g.domain \in projectDomains) \/ g.domain # "github.com"

\* the project groups, then the domain groups
getAllSmartGroupsByKind(list) ==
    LET domainGroups == detectTabGroups(list, 2)
        projectGroups == detectProjectGroups(list)
        projectDomains == {projectGroups[i].domain : i \in 1..Len(projectGroups)}
    IN projectGroups \o SelectSeq(domainGroups, LAMBDA g : Kept(g, projectDomains))

\* lines 137-146
getAllSmartGroups(list) ==
    LET domainGroups == detectTabGroups(list, 2)
        projectGroups == detectProjectGroups(list)
        projectDomains == {projectGroups[i].domain : i \in 1..Len(projectGroups)}
        filteredDomainGroups == SelectSeq(domainGroups, LAMBDA g : Kept(g, projectDomains))
    IN BySize(projectGroups \o filteredDomainGroups)

\* a caller runs detectTabGroups, once, on the snapshot it holds
DetectTabGroups(minGroupSize) ==
    /\ runs = << >>
    /\ runs' = Append(runs, [given |-> snapshot, call |-> "detectTabGroups",
                             minGroupSize |-> minGroupSize,
                             groups |-> detectTabGroups(snapshot, minGroupSize)])
    /\ UNCHANGED <<tabs, clock, tab_activity, stale_tabs, user_settings, badge, handlers, cap, horizon, alarms, library, snapshot, timezone>>

\* a caller runs detectProjectGroups, once, on the snapshot it holds
DetectProjectGroups ==
    /\ runs = << >>
    /\ runs' = Append(runs, [given |-> snapshot, call |-> "detectProjectGroups",
                             minGroupSize |-> 2,
                             groups |-> detectProjectGroups(snapshot)])
    /\ UNCHANGED <<tabs, clock, tab_activity, stale_tabs, user_settings, badge, handlers, cap, horizon, alarms, library, snapshot, timezone>>

\* a caller runs getAllSmartGroups, once, on the snapshot it holds
GetAllSmartGroups ==
    /\ runs = << >>
    /\ runs' = Append(runs, [given |-> snapshot, call |-> "getAllSmartGroups",
                             minGroupSize |-> 2,
                             groups |-> getAllSmartGroups(snapshot)])
    /\ UNCHANGED <<tabs, clock, tab_activity, stale_tabs, user_settings, badge, handlers, cap, horizon, alarms, library, snapshot, timezone>>

----------------------------------------------------------------------------
(* The host *)

\* the user opens a tab
OpenTab(t, p, w) ==
    /\ Interleaves
    /\ tabs[t] = Unborn
    /\ \A u \in TabIds : u < t => tabs[u] # Unborn
    /\ tabs' = [tabs EXCEPT ![t] = Tab(t, p, w)]
    /\ UNCHANGED <<clock, tab_activity, stale_tabs, user_settings, badge, handlers, cap, horizon, alarms, library, detector>>

\* an open tab loads another page; the host reports what changed: changeInfo
\* says whether changeInfo.url and changeInfo.title are there (and not empty)
Navigate(t, p) ==
    /\ Interleaves
    /\ IsOpen(t)
    /\ Tab(t, p, tabs[t].windowId) # tabs[t]
    /\ tabs' = [tabs EXCEPT ![t] = Tab(t, p, tabs[t].windowId)]
    /\ TabUpdatedEvent(t, [url |-> p.url # tabs[t].url /\ p.url # UndefinedUrl,
                           title |-> p.title # tabs[t].title /\ p.title # Undefined])
    /\ UNCHANGED <<clock, tab_activity, stale_tabs, user_settings, badge, cap, horizon, alarms, library, detector>>

\* an open tab reports a change of its loading status only
StatusChange(t) ==
    /\ IsOpen(t)
    /\ tabs' = tabs
    /\ TabUpdatedEvent(t, [url |-> FALSE, title |-> FALSE])
    /\ UNCHANGED <<clock, tab_activity, stale_tabs, user_settings, badge, cap, horizon, alarms, library, detector>>

\* the user closes a tab: chrome.tabs.onRemoved fires
CloseTab(t) ==
    /\ IsOpen(t)
    /\ tabs' = [tabs EXCEPT ![t] = Closed]
    /\ Spawn([Frame("rem", "read") EXCEPT !.tabId = t])
    /\ UNCHANGED <<clock, tab_activity, stale_tabs, user_settings, badge, cap, horizon, alarms, library, detector>>

\* the host drops the alarms, as a browser restart may, while the worker is idle
AlarmsCleared ==
    /\ handlers = EmptyBag
    /\ alarms # NoAlarms
    /\ alarms' = NoAlarms
    /\ UNCHANGED <<tabs, clock, tab_activity, stale_tabs, user_settings, badge, handlers, cap, horizon, library, detector>>

Tick ==
    /\ Interleaves
    /\ clock < horizon
    /\ clock' = clock + 1
    /\ UNCHANGED <<tabs, tab_activity, stale_tabs, user_settings, badge, handlers, cap, horizon, alarms, library, detector>>

----------------------------------------------------------------------------
(* Specifications *)

\* a record the previous browser session left in chrome.storage.local: the
\* store outlives the session, its tab ids do not
Orphan(t) ==
    [chrome_tab_id |-> t, url |-> Url("https", "a.com", "/"), title |-> "A",
     favicon_url |-> Null, last_active_at |-> 0, total_active_time_ms |-> 0,
     visit_count |-> 1, window_id |-> 1]

InitStore ==
    /\ clock = 0
    /\ stale_tabs = << >>
    /\ badge = [text |-> "", color |-> "default"]
    /\ handlers = EmptyBag

\* nothing saved, no folder, no id handed out
InitLibrary ==
    /\ folders = << >>
    /\ saved_tabs = << >>
    /\ uuids = 0

\* the Session Detector is not called
InitIdle ==
    /\ snapshot = << >>
    /\ runs = << >>
    /\ timezone = 0

\* handlers overlap; one tab id is still to be handed out
Init ==
    /\ InitStore
    /\ InitLibrary
    /\ InitIdle
    /\ alarms \in {NoAlarms, BothAlarms}
    /\ cap = MaxHandlers
    /\ horizon = 1
    /\ user_settings = Settings(4)
    /\ tabs = [t \in TabIds |-> IF t = 1 THEN Unborn ELSE Closed]
    /\ tab_activity = EmptyMap

\* one handler at a time; the store is empty or holds a record of the previous
\* session, whose tab is gone
InitSolo ==
    /\ InitStore
    /\ InitLibrary
    /\ InitIdle
    /\ alarms \in {NoAlarms, BothAlarms}
    /\ cap = 1
    /\ horizon = MaxTicks
    /\ user_settings \in {NoSettings, Settings(4)}
    /\ \/ /\ tabs = [t \in TabIds |-> Unborn]
          /\ tab_activity = EmptyMap
       \/ /\ tabs = [t \in TabIds |-> IF t = 1 THEN Closed ELSE Unborn]
          /\ tab_activity = Put(EmptyMap, 1, Orphan(1))

Next ==
    \/ \E t \in TabIds, p \in Pages, w \in Windows : OpenTab(t, p, w)
    \/ \E t \in TabIds, p \in Pages : Navigate(t, p)
    \/ \E t \in TabIds : StatusChange(t)
    \/ \E t \in TabIds : CloseTab(t)
    \/ Tick
    \/ \E t \in TabIds : TabActivatedEvent(t)
    \/ AlarmEvent
    \/ StartupEvent
    \/ GetStaleTabsMessage
    \/ handleTabActivated
    \/ handleTabUpdated
    \/ handleTabRemoved
    \/ checkForInactiveTabs
    \/ syncCurrentTabs
    \/ ensureAlarmsExist
    \/ handleMessageAsync
    \/ Settled

Spec == Init /\ [][Next]_vars

SpecSolo == InitSolo /\ [][Next]_vars

\* the lifecycle handlers on a fresh profile: nothing stored, no alarm scheduled,
\* the clock at rest; one handler at a time or overlapping handlers
InitLifecycle ==
    /\ InitStore
    /\ InitLibrary
    /\ InitIdle
    /\ alarms = NoAlarms
    /\ cap \in {1, MaxHandlers}
    /\ horizon = 0
    /\ user_settings = NoSettings
    /\ tabs = [t \in TabIds |-> Unborn]
    /\ tab_activity = EmptyMap

NextLifecycle ==
    \/ \E t \in TabIds, p \in Pages, w \in Windows : OpenTab(t, p, w)
    \/ \E reason \in Reasons : InstalledEvent(reason)
    \/ StartupEvent
    \/ AlarmsCleared
    \/ handleInstalled
    \/ ensureAlarmsExist
    \/ syncCurrentTabs
    \/ Settled

SpecLifecycle == InitLifecycle /\ [][NextLifecycle]_vars

\* the requests the popup and the pages send, and requests it does not know
Requests ==
    {Message(type, << >>) :
        type \in {"GET_STALE_TABS", "GET_TAB_ACTIVITY", "SYNC_NOW", "GET_FOLDERS",
                  "GET_SAVED_TABS", "GET_SMART_SESSIONS", "GET_TAB_GROUPS",
                  "SAVE_TABS", "DELETE_FOLDER"}}
    \cup {Message("SAVE_TABS", <<[tabIds |-> ids, folderId |-> folderId]>>) :
            ids \in {<<1>>, <<2, 1>>}, folderId \in {Undefined, Uuid(1)}}
    \cup {Message("CLOSE_TABS", <<ids>>) : ids \in {<<1>>, <<1, 2>>, <<2, 1>>}}
    \cup {Message("CREATE_FOLDER", <<[name |-> "Read", icon |-> Undefined, color |-> "red"]>>)}
    \cup {Message("UPDATE_FOLDER", <<[id |-> id, updates |-> [name |-> "Renamed"]]>>) :
            id \in {Uuid(1), Uuid(2)}}
    \cup {Message("DELETE_FOLDER", <<[id |-> id]>>) : id \in {Uuid(1), Uuid(2)}}
    \cup {Message("DELETE_SAVED_TAB", <<[id |-> id]>>) : id \in {Uuid(1), Uuid(2)}}
    \cup {Message("RESTORE_TABS", <<[tabIds |-> ids]>>) : ids \in {<<Uuid(2)>>, <<Uuid(1)>>}}

\* a folder and a saved tab in it, stored by earlier requests
StoredFolder ==
    NewFolder(Uuid(1), [name |-> "Work", icon |-> Undefined, color |-> "blue"], 0, 0)
StoredTab ==
    SavedTab(Uuid(2), Tab(1, Page(Url("https", "a.com", "/"), "A", "a.ico"), 1), 0, Uuid(1))

\* the Message Router, one request at a time: tab 1 is open and tracked, or was
\* closed while the worker was not running; a folder and a saved tab may be stored
InitMessages ==
    /\ InitStore
    /\ InitIdle
    /\ alarms = BothAlarms
    /\ cap = 1
    /\ horizon = 0
    /\ user_settings = Settings(DefaultThresholdHours)
    /\ \/ /\ tabs = [t \in TabIds |->
                  IF t = 1 THEN Tab(1, Page(Url("https", "a.com", "/"), "A", "a.ico"), 1)
                  ELSE Unborn]
          /\ tab_activity = Put(EmptyMap, 1, NewRecord(tabs[1], 0))
       \/ /\ tabs = [t \in TabIds |-> IF t = 1 THEN Closed ELSE Unborn]
          /\ tab_activity = Put(EmptyMap, 1, Orphan(1))
    /\ folders \in {<< >>, <<StoredFolder>>}
    /\ saved_tabs \in {<< >>, <<StoredTab>>}
    /\ uuids = 2

NextMessages ==
    \/ \E message \in Requests : MessageEvent(message)
    \/ MessageRouter
    \/ handleTabRemoved
    \/ Settled

SpecMessages == InitMessages /\ [][NextMessages]_vars

\* when the tabs of a snapshot were last active: a start, the window later,
\* and a millisecond more
SnapshotTimes == {0, SESSION_GAP_MS, SESSION_GAP_MS + 1}

\* the activity record of tab id on page p, last active at time at
Activity(id, p, at) ==
    [chrome_tab_id |-> id, url |-> p.url, title |-> p.title, favicon_url |-> p.favIconUrl,
     last_active_at |-> at, total_active_time_ms |-> 0, visit_count |-> 1, window_id |-> 1]

\* the arrays of up to MaxSnapshot activity records, of tabs 1, 2, ...
Snapshots ==
    UNION {[1..n -> SnapshotPages \X SnapshotTimes] : n \in 0..MaxSnapshot}

\* the Session Detector alone, on every snapshot, in a time zone at UTC or
\* eleven hours ahead of it
InitDetector ==
    /\ InitStore
    /\ InitLibrary
    /\ alarms = NoAlarms
    /\ cap = 1
    /\ horizon = 0
    /\ user_settings = NoSettings
    /\ tabs = [t \in TabIds |-> Unborn]
    /\ tab_activity = EmptyMap
    /\ runs = << >>
    /\ timezone \in {0, 11 * HourMs}
    /\ \E chosen \in Snapshots :
          snapshot = [i \in DOMAIN chosen |-> Activity(i, chosen[i][1], chosen[i][2])]

\* the moments around the hours at which the time of day changes
NamingTimes ==
    { 5 * HourMs - 1, 5 * HourMs, 12 * HourMs - 1, 12 * HourMs,
      17 * HourMs - 1, 17 * HourMs, 21 * HourMs - 1, 21 * HourMs }

\* a time zone and a moment in it: the moments above at UTC, and the moments
\* around noon of a zone eleven hours ahead of UTC
NamingMoments ==
    ({0} \X NamingTimes) \cup ({11 * HourMs} \X {HourMs - 1, HourMs})

\* the Session Detector on the tabs of one moment, which it names as one
\* session: every array of up to MaxSnapshot records over NamingPages
InitNaming ==
    /\ InitStore
    /\ InitLibrary
    /\ alarms = NoAlarms
    /\ cap = 1
    /\ horizon = 0
    /\ user_settings = NoSettings
    /\ tabs = [t \in TabIds |-> Unborn]
    /\ tab_activity = EmptyMap
    /\ runs = << >>
    /\ \E n \in 0..MaxSnapshot, moment \in NamingMoments :
          \E chosen \in [1..n -> NamingPages] :
              /\ timezone = moment[1]
              /\ snapshot = [i \in 1..n |-> Activity(i, chosen[i], moment[2])]

NextDetector == Detect

SpecDetector == InitDetector /\ [][NextDetector]_vars

SpecNaming == InitNaming /\ [][NextDetector]_vars

\* what the tabs to group show: two projects of one owner, the code host
\* written with www., an owner's page, and a page elsewhere
GroupPages ==
    { Page(Url("https", "github.com", "/acme/app/pull/7"), "Fix Login", Null),
      Page(Url("https", "github.com", "/acme/web"), "Web", Null),
      Page(Url("https", "www.github.com", "/acme/app"), "App", Null),
      Page(Url("https", "github.com", "/acme"), "Acme", Null),
      Page(Url("https", "example.org", "/"), "Home", Null) }

\* what the tabs to group show when some are odd: a string that is no url, and
\* hosts of one label whose names are the placeholder of extractDomain and a
\* property of every object
OddPages ==
    { Page(Url("", "", "not a url"), "Draft", Null),
      Page(Url("http", "unknown", "/"), "Intranet", Null),
      Page(Url("http", "constructor", "/"), "Intranet", Null),
      Page(Url("https", "github.com", "/acme/app/pull/7"), "Fix Login", Null),
      Page(Url("https", "example.org", "/"), "Home", Null) }

\* the minGroupSize a caller passes
GroupSizes == {0, 1, 2, 3}

\* the arrays of up to MaxSnapshot + 1 activity records over the pages, every
\* second one active a second after the one before
Groupable(pages) ==
    UNION {[1..n -> pages] : n \in 0..(MaxSnapshot + 1)}

\* the Group Detector alone, on a snapshot of tabs over the pages
InitGrouping(pages) ==
    /\ InitStore
    /\ InitLibrary
    /\ alarms = NoAlarms
    /\ cap = 1
    /\ horizon = 0
    /\ user_settings = NoSettings
    /\ tabs = [t \in TabIds |-> Unborn]
    /\ tab_activity = EmptyMap
    /\ runs = << >>
    /\ timezone = 0
    /\ \E chosen \in Groupable(pages) :
          snapshot = [i \in DOMAIN chosen |-> Activity(i, chosen[i], (i \div 2) * 1000)]

InitGroups == InitGrouping(GroupPages)

InitOddGroups == InitGrouping(OddPages)

NextGroups ==
    \/ \E minGroupSize \in GroupSizes : DetectTabGroups(minGroupSize)
    \/ DetectProjectGroups
    \/ GetAllSmartGroups

SpecGroups == InitGroups /\ [][NextGroups]_vars

SpecOddGroups == InitOddGroups /\ [][NextGroups]_vars

\* when the tabs of the scans were last activated: on the hour, a millisecond
\* past it, and half an hour before the clock's first reading
ScanTimes == {0, 1, TickMs - HourMs \div 2}

\* the record of tab t, open on a.com and last activated at time at
Tracked(t, at) == [Orphan(t) EXCEPT !.last_active_at = at]

\* the scans among the handlers of a tab that is open and tracked: eight hours
\* into the day tab 1 shows a.com, its record is stored, the alarms are
\* scheduled, and handlers overlap
InitScans ==
    /\ clock = 1
    /\ stale_tabs = << >>
    /\ badge = [text |-> "", color |-> "default"]
    /\ handlers = EmptyBag
    /\ InitLibrary
    /\ InitIdle
    /\ alarms = BothAlarms
    /\ cap = MaxHandlers
    /\ horizon = MaxTicks
    /\ user_settings \in {NoSettings, Settings(4)}
    /\ tabs = [t \in TabIds |-> IF t = 1 THEN Tab(t, Page(Url("https", "a.com", "/"), "A", "a.ico"), 1)
                                ELSE Closed]
    /\ \E at \in ScanTimes : tab_activity = Put(EmptyMap, 1, Tracked(1, at))

NextScans ==
    \/ \E t \in TabIds : CloseTab(t)
    \/ Tick
    \/ \E t \in TabIds : TabActivatedEvent(t)
    \/ AlarmEvent
    \/ handleTabActivated
    \/ handleTabRemoved
    \/ checkForInactiveTabs
    \/ Settled

SpecScans == InitScans /\ [][NextScans]_vars

\* the scans among the handlers of a tab that is open and not tracked yet: the
\* day begins, tab 1 shows a.com, nothing is stored, the alarms are scheduled,
\* and handlers overlap
InitUntracked ==
    /\ InitStore
    /\ InitLibrary
    /\ InitIdle
    /\ alarms = BothAlarms
    /\ cap = MaxHandlers
    /\ horizon = 1
    /\ user_settings = Settings(4)
    /\ tabs = [t \in TabIds |-> IF t = 1 THEN Tab(t, Page(Url("https", "a.com", "/"), "A", "a.ico"), 1)
                                ELSE Closed]
    /\ tab_activity = EmptyMap

\* the alarm is periodic (periodInMinutes: 30) and fires again and again, time
\* passes, every await of a handler resolves and every promise settles; the
\* user's events are under no obligation
SpecScansFair ==
    /\ InitUntracked
    /\ [][NextScans]_vars
    /\ WF_vars(AlarmEvent)
    /\ WF_vars(Tick)
    /\ WF_vars(handleTabActivated)
    /\ WF_vars(handleTabRemoved)
    /\ WF_vars(checkForInactiveTabs)
    /\ WF_vars(Settled)

\* the requests of the pages that write the folders and the saved tabs
WriteRequests ==
    { Message("SAVE_TABS", <<[tabIds |-> <<1>>, folderId |-> Uuid(1)]>>),
      Message("CREATE_FOLDER", <<[name |-> "Read", icon |-> Undefined, color |-> "red"]>>),
      Message("UPDATE_FOLDER", <<[id |-> Uuid(1), updates |-> [name |-> "Renamed"]]>>),
      Message("DELETE_SAVED_TAB", <<[id |-> Uuid(2)]>>) }

\* the deletion of the stored folder, and a save into it
DeleteRequests ==
    { Message("DELETE_FOLDER", <<[id |-> Uuid(1)]>>),
      Message("SAVE_TABS", <<[tabIds |-> <<1>>, folderId |-> Uuid(1)]>>) }

\* the Message Router with requests overlapping: tab 1 is open and tracked, a
\* folder and a saved tab in it are stored
InitRequests ==
    /\ InitStore
    /\ InitIdle
    /\ alarms = BothAlarms
    /\ cap = MaxHandlers
    /\ horizon = 0
    /\ user_settings = Settings(DefaultThresholdHours)
    /\ tabs = [t \in TabIds |->
                  IF t = 1 THEN Tab(1, Page(Url("https", "a.com", "/"), "A", "a.ico"), 1)
                  ELSE Unborn]
    /\ tab_activity = Put(EmptyMap, 1, NewRecord(tabs[1], 0))
    /\ folders = <<StoredFolder>>
    /\ saved_tabs = <<StoredTab>>
    /\ uuids = 2

NextWrites ==
    \/ \E message \in WriteRequests : MessageEvent(message)
    \/ MessageRouter
    \/ Settled

NextDeletes ==
    \/ \E message \in DeleteRequests : MessageEvent(message)
    \/ MessageRouter
    \/ Settled

SpecWrites == InitRequests /\ [][NextWrites]_vars

SpecDeletes == InitRequests /\ [][NextDeletes]_vars

----------------------------------------------------------------------------
(* Properties *)

\* the handlers of a kind that ran to their end and have not settled yet.  Under
\* SpecSolo the host delivers nothing until they settle: the state is the one the
\* run left, f.read is the map the run found, and the run was not interleaved.
Done(kind) == {f \in BagToSet(handlers) : f.kind = kind /\ f.pc = "done"}

StaleIds(list) == {list[i].chrome_tab_id : i \in 1..Len(list)}

\* the threshold and the inactivity a scan at this moment works with
NowThresholdMs ==
    (IF user_settings.set THEN user_settings.inactive_threshold_hours
     ELSE DefaultThresholdHours) * HourMs
NowInactive(activity) == DateNow - activity.last_active_at > NowThresholdMs

\* C1: once handleTabRemoved(t) and a handleTabActivated(t) that ran concurrently
\* have both completed, tab_activity holds no record for t.
C1_RemovedStaysRemoved ==
    \A f \in Done("rem"), g \in Done("act") :
        f.tabId = g.tabId => ~Has(tab_activity, f.tabId)

\* C2: once handleTabRemoved(t) has deleted t's record, no handleTabUpdated,
\* checkForInactiveTabs or syncCurrentTabs run that read the map while it still
\* held t has stored a map that holds t.
C2_NoStaleWriteBack ==
    \A g \in Done("rem"), f \in Done("upd") \cup Done("check") \cup Done("sync") :
        (Has(g.read, g.tabId) /\ Has(f.read, g.tabId) /\ Has(f.tab_activity, g.tabId))
            => ~Has(tab_activity, g.tabId)

\* C3 (as claimed): after a completed, uninterleaved checkForInactiveTabs or
\* syncCurrentTabs every key of tab_activity is the id of an open tab.
C3_NoOrphanAfterRun ==
    (Done("check") \cup Done("sync") # {}) => DOMAIN tab_activity \subseteq OpenIds

\* C3 (amended): after a completed, uninterleaved syncCurrentTabs every key of
\* tab_activity is the id of an open tab; after a completed, uninterleaved
\* checkForInactiveTabs every key whose record is inactive beyond the threshold
\* is the id of an open tab.
C3_StaleOrphansPruned ==
    /\ (Done("sync") # {}) => DOMAIN tab_activity \subseteq OpenIds
    /\ (Done("check") # {}) =>
          \A k \in DOMAIN tab_activity : NowInactive(tab_activity[k]) => IsOpen(k)

\* a scan has just dropped the record of a closed tab and kept another record
C3_Witness ==
    \E f \in Done("check") :
        /\ \E k \in DOMAIN f.read : ~IsOpen(k) /\ ~Has(tab_activity, k)
        /\ tab_activity # EmptyMap

\* C4: the list a GET_STALE_TABS request returns holds exactly the tabs whose
\* now - last_active_at exceeds the threshold at the time of the request, and no
\* tab that is not open then.
C4_FreshStaleList ==
    \A f \in Done("GET_STALE_TABS") :
        /\ StaleIds(f.data) = {k \in DOMAIN tab_activity : NowInactive(tab_activity[k])}
        /\ StaleIds(f.data) \subseteq OpenIds

\* C5: in an uninterleaved checkForInactiveTabs run, a record read with
\* now - last_active_at > threshold is reported in stale_tabs and kept when its
\* tab is open and is deleted and not reported when it is not; a record with
\* now - last_active_at <= threshold is neither reported nor deleted.
C5_ScanClassifies ==
    \A f \in Done("check") : \A k \in DOMAIN f.read :
        IF DateNow - f.read[k].last_active_at > NowThresholdMs
        THEN IF IsOpen(k)
             THEN /\ k \in StaleIds(stale_tabs)
                  /\ Has(tab_activity, k) /\ tab_activity[k] = f.read[k]
             ELSE /\ k \notin StaleIds(stale_tabs)
                  /\ ~Has(tab_activity, k)
        ELSE /\ k \notin StaleIds(stale_tabs)
             /\ Has(tab_activity, k) /\ tab_activity[k] = f.read[k]

\* one scan reported an open tab and dropped the record of a closed one
C5_Witness ==
    \E f \in Done("check") :
        /\ \E k \in DOMAIN f.read : k \in StaleIds(stale_tabs)
        /\ \E k \in DOMAIN f.read : ~Has(tab_activity, k)

\* C6: after a completed, uninterleaved checkForInactiveTabs run stale_tabs is
\* exactly the list of that run's candidates (the inactive records of open tabs,
\* in key order): nothing of the list it replaced is left unless recomputed.
C6_StaleListReplaced ==
    \A f \in Done("check") :
        LET ids == Ascending({k \in DOMAIN f.read :
                        DateNow - f.read[k].last_active_at > NowThresholdMs /\ IsOpen(k)})
        IN /\ Len(stale_tabs) = Len(ids)
           /\ \A i \in 1..Len(ids) :
                /\ stale_tabs[i].chrome_tab_id = ids[i]
                /\ stale_tabs[i].url = f.read[ids[i]].url
                /\ stale_tabs[i].title = f.read[ids[i]].title
                /\ stale_tabs[i].favicon_url = f.read[ids[i]].favicon_url

\* a scan replaced a list that held a tab the scan did not report again
C6_Witness ==
    \E f \in Done("check") :
        /\ StaleIds(f.data) \ StaleIds(stale_tabs) # {}
        /\ stale_tabs # << >>

\* C7: after an uninterleaved handleTabActivated(t, w) for an open tab with a
\* trackable url, t's record has last_active_at = now, visit_count one more than
\* before (1 if there was none) and the tab's url, title and favicon, and every
\* other record is as it was.
C7_ActivationRecorded ==
    \A f \in Done("act") :
        LET t == f.tabId IN
        (IsOpen(t) /\ tabs[t].url # UndefinedUrl /\ tabs[t].url.scheme # "chrome") =>
            /\ Has(tab_activity, t)
            /\ tab_activity[t].last_active_at = DateNow
            /\ tab_activity[t].visit_count =
                  IF Has(f.read, t) THEN f.read[t].visit_count + 1 ELSE 1
            /\ tab_activity[t].url = tabs[t].url
            /\ tab_activity[t].title =
                  (IF tabs[t].title = Undefined THEN "" ELSE tabs[t].title)
            /\ tab_activity[t].favicon_url =
                  (IF tabs[t].favIconUrl = Undefined THEN Null ELSE tabs[t].favIconUrl)
            /\ DOMAIN tab_activity = DOMAIN f.read \cup {t}
            /\ \A k \in DOMAIN f.read : k # t => tab_activity[k] = f.read[k]

\* a tab with a record was activated again, later, while another tab has a record
C7_Witness ==
    \E f \in Done("act") :
        /\ Has(f.read, f.tabId) /\ Has(tab_activity, f.tabId)
        /\ tab_activity[f.tabId].visit_count = 2
        /\ tab_activity[f.tabId].last_active_at > f.read[f.tabId].last_active_at
        /\ DOMAIN f.read # {f.tabId}

\* C8: tab_activity never holds a record for a tab whose current url is an
\* internal one (chrome://).
C8_NoInternalTabTracked ==
    \A t \in DOMAIN tab_activity : IsOpen(t) => ~StartsWithChrome(tabs[t].url)

\* C9: handleTabUpdated creates no record and touches no counter: when the change
\* carries neither url nor title, or the tab has no record, the store is as it
\* was; otherwise at most url, title and favicon_url of that tab's record differ.
C9_UpdateFrame ==
    \A f \in Done("upd") :
        LET t == f.tabId
            changeInfo == f.data[1]
        IN IF ~(changeInfo.url \/ changeInfo.title) \/ ~Has(f.read, t)
           THEN tab_activity = f.read
           ELSE /\ DOMAIN tab_activity = DOMAIN f.read
                /\ \A k \in DOMAIN f.read : k # t => tab_activity[k] = f.read[k]
                /\ tab_activity[t].chrome_tab_id = f.read[t].chrome_tab_id
                /\ tab_activity[t].last_active_at = f.read[t].last_active_at
                /\ tab_activity[t].total_active_time_ms = f.read[t].total_active_time_ms
                /\ tab_activity[t].visit_count = f.read[t].visit_count
                /\ tab_activity[t].window_id = f.read[t].window_id

\* an update changed the url of a record with two visits, later than its last
\* activation
C9_Witness ==
    \E f \in Done("upd") :
        /\ Has(f.read, f.tabId) /\ Has(tab_activity, f.tabId)
        /\ tab_activity[f.tabId].url # f.read[f.tabId].url
        /\ tab_activity[f.tabId].visit_count = 2
        /\ tab_activity[f.tabId].last_active_at < DateNow

\* C10: after an uninterleaved syncCurrentTabs every open trackable tab has a
\* record, a record it created has visit_count = 1, last_active_at = now and
\* total_active_time_ms = 0, no record is left for a tab that is not open, and the
\* records that open tabs had are as they were.
C10_Resynced ==
    \A f \in Done("sync") :
        /\ \A t \in OpenIds :
              (tabs[t].url # UndefinedUrl /\ tabs[t].url.scheme # "chrome")
                  => Has(tab_activity, t)
        /\ DOMAIN tab_activity \subseteq OpenIds
        /\ \A k \in DOMAIN tab_activity :
              IF Has(f.read, k)
              THEN tab_activity[k] = f.read[k]
              ELSE /\ tab_activity[k].visit_count = 1
                   /\ tab_activity[k].last_active_at = DateNow
                   /\ tab_activity[k].total_active_time_ms = 0
        /\ \A k \in DOMAIN f.read \cap OpenIds : Has(tab_activity, k)

\* a resync created a record and dropped one, later than the start
C10_Witness ==
    \E f \in Done("sync") :
        /\ DOMAIN tab_activity \ DOMAIN f.read # {}
        /\ DOMAIN f.read \ DOMAIN tab_activity # {}
        /\ DateNow > 0

\* C11: after handleInstalled (install or update) or handleStartup has completed,
\* uninterleaved, every open trackable tab has an activity record.
C11_ResyncAtProcessStart ==
    cap = 1 =>
        \A f \in Done("inst") \cup Done("sync") :
            \A t \in OpenIds : ~Untrackable(tabs[t]) => Has(tab_activity, t)

\* C12: ensureAlarmsExist never calls chrome.alarms.create for an alarm name that
\* is scheduled at the time of the call, however handleInstalled and
\* handleStartup invocations interleave.
C12_NoCreateOverScheduled ==
    [][\A f \in BagToSet(handlers) :
          EnsureCreate(f) => ~Has(alarms, AlarmAt(f.pc))]_vars

\* the requests received and not yet settled, and the tab ids a request names
Requested == {f \in BagToSet(handlers) : f.message.type # ""}
AskedIds(f) ==
    LET ids == IF f.kind = "CLOSE_TABS" THEN f.message.payload[1]
               ELSE f.message.payload[1].tabIds
    IN {ids[i] : i \in 1..Len(ids)}

C15_RouterLeavesActivity ==
    [][(MessageRouter \/ \E message \in Requests : MessageEvent(message))
          => tab_activity' = tab_activity]_vars

\* a SAVE_TABS request that named a tab that is not open stored a saved tab
\* while the activity map holds a record
C15_Witness ==
    \E f \in Done("SAVE_TABS") :
        /\ f.responses = <<Success>>
        /\ Len(saved_tabs) > Len(f.before.saved_tabs)
        /\ \E t \in AskedIds(f) : ~IsOpen(t)
        /\ tab_activity # EmptyMap

\* C16: when a SAVE_TABS or CLOSE_TABS request names a tab that is not open, the
\* request is answered with success and tab_activity holds no record of that tab
\* afterwards.
C16_MissingTabPruned ==
    \A f \in Done("SAVE_TABS") \cup Done("CLOSE_TABS") :
        f.message.payload # << >> =>
            \A t \in AskedIds(f) :
                f.before.tabs[t].state # "open" =>
                    (f.responses[1].success /\ ~Has(tab_activity, t))

\* C17: a request during which a storage read or write failed is answered with
\* {success: false, error} and leaves every key of the store as the request
\* found it.
C17_StorageFailureLeavesStore ==
    \A f \in Requested :
        (f.pc = "done" /\ f.error = <<StorageError>>) =>
            /\ f.responses = <<Failure("storage failed")>>
            /\ tab_activity = f.before.tab_activity
            /\ stale_tabs = f.before.stale_tabs
            /\ user_settings = f.before.user_settings
            /\ folders = f.before.folders
            /\ saved_tabs = f.before.saved_tabs

\* the storage.set of a DELETE_FOLDER request failed for a stored folder that
\* holds a saved tab
C17_Witness ==
    \E f \in Done("DELETE_FOLDER") :
        /\ f.error = <<StorageError>>
        /\ f.writes # << >>
        /\ \E i \in 1..Len(folders) : folders[i].id = f.message.payload[1].id
        /\ \E i \in 1..Len(saved_tabs) : saved_tabs[i].folder_id = f.message.payload[1].id

\* the tabs of session s, as their ids
Members(s) == {s.tabs[i].chrome_tab_id : i \in 1..Len(s.tabs)}

\* the last run of the Session Detector and the sessions it returned
LastRun == runs[Len(runs)]

\* C14: a GET_SMART_SESSIONS request is answered with success = true and the
\* Session Detector's output over the stored tab_activity, and a GET_TAB_GROUPS
\* request with success = true.
C14_DetectorsAnswered ==
    \A f \in Done("GET_SMART_SESSIONS") \cup Done("GET_TAB_GROUPS") :
        /\ f.responses[1].success
        /\ f.kind = "GET_SMART_SESSIONS" =>
              f.responses[1].data =
                  <<detectSmartSessions([i \in 1..Len(Ascending(DOMAIN tab_activity)) |->
                        tab_activity[Ascending(DOMAIN tab_activity)[i]]])>>

\* C18: every session detectSmartSessions returns has at least 2 tabs; for an
\* empty array and an array of one record it returns no session.
C18_NoSmallSession ==
    \A r \in 1..Len(runs) :
        /\ \A i \in 1..Len(runs[r].sessions) : Len(runs[r].sessions[i].tabs) >= 2
        /\ Len(runs[r].given) <= 1 => runs[r].sessions = << >>

\* a run returned one session and left out a tab that is alone in its window
C18_Witness ==
    /\ runs # << >>
    /\ Len(LastRun.sessions) = 1
    /\ Len(LastRun.sessions[1].tabs) < Len(LastRun.given)

\* the records of the array are x and y, y follows x in ascending
\* last_active_at with no record between them
Adjacent(given, x, y) ==
    /\ x # y
    /\ given[x].last_active_at <= given[y].last_active_at
    /\ \A z \in DOMAIN given \ {x, y} :
          \/ given[z].last_active_at < given[x].last_active_at
          \/ given[z].last_active_at > given[y].last_active_at

\* C19: two records adjacent in ascending last_active_at are in no common
\* session when their last_active_at differ by more than 30 minutes, and are
\* both in one returned session when they differ by less.
C19_WindowSplits ==
    \A r \in 1..Len(runs) :
        LET given == runs[r].given
            sessions == runs[r].sessions
            Together(x, y) ==
                \E i \in 1..Len(sessions) :
                    {given[x].chrome_tab_id, given[y].chrome_tab_id} \subseteq Members(sessions[i])
        IN \A x, y \in DOMAIN given :
              Adjacent(given, x, y) =>
                  LET gap == given[y].last_active_at - given[x].last_active_at
                  IN /\ gap > 30 * 60 * 1000 => ~Together(x, y)
                     /\ gap < 30 * 60 * 1000 => Together(x, y)

\* a run returned two sessions: the window split four tabs in the middle
C19_Witness ==
    /\ runs # << >>
    /\ Len(LastRun.sessions) = 2
    /\ Len(LastRun.given) = 4

Earliest(s) ==
    CHOOSE at \in {s.tabs[i].last_active_at : i \in 1..Len(s.tabs)} :
        \A i \in 1..Len(s.tabs) : at <= s.tabs[i].last_active_at

\* C21: the sessions detectSmartSessions returns are in descending start_time,
\* the id of each is 'session-' and the smallest last_active_at of its tabs,
\* and no two sessions of one result have the same id.
C21_DescendingDistinctIds ==
    \A r \in 1..Len(runs) :
        LET sessions == runs[r].sessions
        IN /\ \A i \in 1..(Len(sessions) - 1) :
                 GetTime(sessions[i].start_time) >= GetTime(sessions[i + 1].start_time)
           /\ \A i \in 1..Len(sessions) :
                 /\ sessions[i].id = "session-" \o ToString(Earliest(sessions[i]))
                 /\ GetTime(sessions[i].start_time) = Earliest(sessions[i])
           /\ \A i, j \in 1..Len(sessions) : i # j => sessions[i].id # sessions[j].id

\* a run returned two sessions, the later one first, from an array that holds
\* the tabs of the earlier one first
C21_Witness ==
    /\ runs # << >>
    /\ Len(LastRun.sessions) = 2
    /\ LastRun.sessions[1].id = "session-" \o ToString(SESSION_GAP_MS + 1)
    /\ LastRun.sessions[2].id = "session-0"
    /\ LastRun.given[1].last_active_at = 0

\* the topics of the table, in its order
TableTopics == [k \in 1..Len(TOPIC_KEYWORDS) |-> TOPIC_KEYWORDS[k].topic]

\* the tabs of session s that match the topic
Matching(s, topic) ==
    {i \in 1..Len(s.tabs) :
        \E k \in 1..Len(extractTopicsFromTab(s.tabs[i])) :
            extractTopicsFromTab(s.tabs[i])[k] = topic}

\* the topics some tab of s matches, by descending number of matching tabs,
\* topics of equal number in the order of the table
RankedByTable(s) ==
    LET matched == SelectSeq(TableTopics, LAMBDA topic : Matching(s, topic) # {})
    IN StableSort(matched,
           [k \in 1..Len(matched) |-> 0 - Cardinality(Matching(s, matched[k]))])

\* C22: a session's topic_tags are the (at most 3) topics most of its tabs
\* match, in descending count, topics of equal count in the order of the
\* keyword table, whatever the order of the tabs.
C22_TiesInTableOrder ==
    \A r \in 1..Len(runs) : \A i \in 1..Len(runs[r].sessions) :
        LET s == runs[r].sessions[i]
            ranked == RankedByTable(s)
        IN s.topic_tags = SubSeq(ranked, 1, IF Len(ranked) < 3 THEN Len(ranked) ELSE 3)

\* the domain the detector counts a tab of a session under
DomainsOf(s) == [i \in 1..Len(s.tabs) |-> extractDomain(s.tabs[i].url)]

\* C23: a session's dominant domain d is on at least 2 of its tabs and no other
\* domain is on more of them; it is null exactly when every domain is on at
\* most one tab; www.example.org and example.org are one domain.
C23_DominantDomain ==
    \A r \in 1..Len(runs) : \A i \in 1..Len(runs[r].sessions) :
        LET s == runs[r].sessions[i]
            all == DomainsOf(s)
            d == s.dominant_domain
        IN /\ d # Null =>
                /\ Count(all, d) >= 2
                /\ \A j \in 1..Len(all) : Count(all, all[j]) <= Count(all, d)
           /\ d = Null <=> \A j \in 1..Len(all) : Count(all, all[j]) <= 1

\* a session of four tabs, two on each of two domains, one of them written
\* with and without www.: the dominant domain is the one of the first tab
C23_Witness ==
    /\ runs # << >>
    /\ Len(LastRun.sessions) = 1
    /\ Len(LastRun.given) = 4
    /\ LastRun.sessions[1].dominant_domain = "example.org"
    /\ LastRun.given[1].url.host = "www.example.org"
    /\ Count(DomainsOf(LastRun.sessions[1]), "github.com") = 2

\* the hour of local time at which session s starts
StartHour(s) == GetHours(GetTime(s.start_time))

\* Morning for 5..11, Afternoon for 12..16, Evening for 17..20, else Night
TimeLabel(hour) ==
    IF hour \in 5..11 THEN "Morning"
    ELSE IF hour \in 12..16 THEN "Afternoon"
    ELSE IF hour \in 17..20 THEN "Evening"
    ELSE "Night"

\* C24 (as claimed): a session's name is its time label and, after a space, the
\* capitalized first of its topic_tags, else the capitalized first label of its
\* dominant_domain when that is not null, else 'Session'.
C24_NameOfNonNullDomain ==
    \A r \in 1..Len(runs) : \A i \in 1..Len(runs[r].sessions) :
        LET s == runs[r].sessions[i]
        IN s.name = TimeLabel(StartHour(s)) \o " " \o
              (IF s.topic_tags # << >> THEN Capitalized(s.topic_tags[1])
               ELSE IF s.dominant_domain # Null
               THEN Capitalized(BeforeDot(s.dominant_domain))
               ELSE "Session")

\* C24 (amended): a session's name is its time label and, after a space, the
\* capitalized first of its topic_tags, else the capitalized first label of its
\* dominant_domain when that is neither null nor the empty string, else
\* 'Session'.
C24_NameOfSession ==
    \A r \in 1..Len(runs) : \A i \in 1..Len(runs[r].sessions) :
        LET s == runs[r].sessions[i]
        IN s.name = TimeLabel(StartHour(s)) \o " " \o
              (IF s.topic_tags # << >> THEN Capitalized(s.topic_tags[1])
               ELSE IF s.dominant_domain # Null /\ s.dominant_domain # ""
               THEN Capitalized(BeforeDot(s.dominant_domain))
               ELSE "Session")

\* a session of two files, which have no hostname, that starts at noon: its
\* dominant domain is the empty string and its name 'Afternoon Session'
C24_Witness ==
    /\ runs # << >>
    /\ Len(LastRun.sessions) = 1
    /\ LastRun.sessions[1].topic_tags = << >>
    /\ LastRun.sessions[1].dominant_domain = ""
    /\ StartHour(LastRun.sessions[1]) = 12
    /\ LastRun.sessions[1].name = "Afternoon Session"

\* the string is a url
Parseable(tab) == tab.url.scheme # ""

\* the call of a run, made on another array
Regrouped(run, list) ==
    IF run.call = "detectTabGroups" THEN detectTabGroups(list, run.minGroupSize)
    ELSE IF run.call = "detectProjectGroups" THEN detectProjectGroups(list)
    ELSE getAllSmartGroups(list)

\* the groups as classes of the tabs of ids: the id of each group with the tabs
\* of ids it holds, for the groups that hold any
Classes(groups, ids) ==
    {<<groups[i].id, Members(groups[i]) \cap ids>> : i \in 1..Len(groups)}
        \ {<<groups[i].id, {}>> : i \in 1..Len(groups)}

\* C25: in the result of detectTabGroups, detectProjectGroups and
\* getAllSmartGroups a tab whose url does not parse is only in the domain group
\* of 'unknown', never in a project group, and the tabs whose urls parse are
\* grouped exactly as the call groups them when given these tabs alone.
C25_OddUrlsApart ==
    \A r \in 1..Len(runs) :
        LET run == runs[r]
            valid == SelectSeq(run.given, Parseable)
            validIds == {valid[i].chrome_tab_id : i \in 1..Len(valid)}
        IN /\ \A i \in 1..Len(run.groups) : \A k \in 1..Len(run.groups[i].tabs) :
                 ~Parseable(run.groups[i].tabs[k]) => run.groups[i].id = "group-unknown"
           /\ Classes(run.groups, validIds) = Classes(Regrouped(run, valid), validIds)

\* the runs of a call
RunsOf(call) == {r \in 1..Len(runs) : runs[r].call = call}

\* C26: every group detectTabGroups returns has at least minGroupSize tabs, all
\* of the group's domain, and a tab_count that is the length of its tabs; every
\* domain of the input with at least minGroupSize tabs has exactly one group.
C26_DomainGroups ==
    \A r \in RunsOf("detectTabGroups") :
        LET run == runs[r]
            all == [i \in 1..Len(run.given) |-> extractDomain(run.given[i].url)]
        IN /\ \A i \in 1..Len(run.groups) :
                 LET g == run.groups[i]
                 IN /\ Len(g.tabs) >= run.minGroupSize
                    /\ g.tab_count = Len(g.tabs)
                    /\ \A k \in 1..Len(g.tabs) : extractDomain(g.tabs[k].url) = g.domain
           /\ \A j \in 1..Len(all) :
                 Count(all, all[j]) >= run.minGroupSize =>
                     Cardinality({i \in 1..Len(run.groups) : run.groups[i].domain = all[j]}) = 1

\* detectTabGroups with minGroupSize 3 returned the group of three tabs of
\* github.com, one of them at www.github.com, and no group for two others
C26_Witness ==
    /\ runs # << >>
    /\ LastRun.call = "detectTabGroups"
    /\ LastRun.minGroupSize = 3
    /\ Len(LastRun.given) = 5
    /\ Len(LastRun.groups) = 1
    /\ LastRun.groups[1].id = "group-github.com"
    /\ LastRun.groups[1].tab_count = 3
    /\ \E k \in 1..3 : LastRun.groups[1].tabs[k].url.host = "www.github.com"

\* the groups of a sequence, as a set
Groups(groups) == {groups[i] : i \in 1..Len(groups)}

\* C27: the result of getAllSmartGroups holds the domain group of github.com
\* exactly when github.com has at least 2 tabs and detectProjectGroups returns
\* no group; it holds every other group of detectTabGroups(tabs, 2) and every
\* group of detectProjectGroups as they are, and nothing else.
C27_ProjectsSuppressDomain ==
    \A r \in RunsOf("getAllSmartGroups") :
        LET run == runs[r]
            all == [i \in 1..Len(run.given) |-> extractDomain(run.given[i].url)]
            domainGroups == Groups(detectTabGroups(run.given, 2))
            projectGroups == Groups(detectProjectGroups(run.given))
            whole == {g \in Groups(run.groups) : g.id = "group-github.com"}
        IN /\ whole # {} <=> (Count(all, "github.com") >= 2 /\ projectGroups = {})
           /\ Groups(run.groups) \ whole =
                 projectGroups \cup {g \in domainGroups : g.domain # "github.com"}
           /\ whole \subseteq domainGroups
           /\ Len(run.groups) = Cardinality(Groups(run.groups))

\* getAllSmartGroups returned a project group and the group of another domain,
\* and left out the group of github.com, which has three tabs
C27_Witness ==
    /\ runs # << >>
    /\ LastRun.call = "getAllSmartGroups"
    /\ Len(LastRun.groups) = 2
    /\ \E i \in 1..2 : LastRun.groups[i].id = "project-github:acme/app"
    /\ \E i \in 1..2 : LastRun.groups[i].id = "group-example.org"
    /\ Cardinality({i \in 1..Len(snapshot) : extractDomain(snapshot[i].url) = "github.com"}) = 3

\* C28: the list getAllSmartGroups returns is in non-increasing tab_count,
\* whether a group is a project group or a domain group.
C28_BySizeAcrossKinds ==
    \A r \in RunsOf("getAllSmartGroups") :
        \A i \in 1..(Len(runs[r].groups) - 1) :
            runs[r].groups[i].tab_count >= runs[r].groups[i + 1].tab_count

\* getAllSmartGroups returned a domain group of three tabs before a project
\* group of two
C28_Witness ==
    /\ runs # << >>
    /\ LastRun.call = "getAllSmartGroups"
    /\ Len(LastRun.groups) = 2
    /\ LastRun.groups[1].id = "group-example.org"
    /\ LastRun.groups[1].tab_count = 3
    /\ LastRun.groups[2].id = "project-github:acme/app"

\* the colours of the table and of the palette
Colors ==
    {DOMAIN_COLORS[d] : d \in DOMAIN DOMAIN_COLORS}
        \cup {DEFAULT_COLORS[i] : i \in 1..Len(DEFAULT_COLORS)}

\* C29: the colour of a group is the table's colour of its domain, or else a
\* colour of the palette of 12, and two groups of one domain have one colour,
\* in whichever call and beside whichever tabs.
C29_ColorOfDomain ==
    \A r \in 1..Len(runs) : \A i \in 1..Len(runs[r].groups) :
        LET g == runs[r].groups[i]
        IN /\ g.color \in Colors
           /\ g.domain \in DOMAIN DOMAIN_COLORS => g.color = DOMAIN_COLORS[g.domain]
           /\ \A q \in 1..Len(runs) : \A j \in 1..Len(runs[q].groups) :
                 runs[q].groups[j].domain = g.domain => runs[q].groups[j].color = g.color

\* the two path segments a project group is named by, for a tab on github.com
\* with at least two
ProjectOf(tab) ==
    LET pathParts == PathParts(tab.url.path)
    IN IF tab.url.scheme # "" /\ tab.url.host = "github.com" /\ Len(pathParts) >= 2
       THEN pathParts[1] \o "/" \o pathParts[2]
       ELSE ""

\* C30: a group detectProjectGroups returns holds exactly the tabs of the input
\* whose hostname is github.com and whose first two path segments are the
\* group's owner and repository, has at least 2 tabs and the domain github.com;
\* a tab of another host or of fewer than two path segments is in no group.
C30_ProjectGroups ==
    \A r \in RunsOf("detectProjectGroups") :
        LET run == runs[r]
        IN \A i \in 1..Len(run.groups) :
              LET g == run.groups[i]
              IN /\ g.name # ""
                 /\ Members(g) = {run.given[k].chrome_tab_id : k \in
                        {k \in 1..Len(run.given) : ProjectOf(run.given[k]) = g.name}}
                 /\ Len(g.tabs) = Cardinality(Members(g))
                 /\ Len(g.tabs) >= 2
                 /\ g.domain = "github.com"

\* detectProjectGroups returned the group of two tabs of acme/app and left out
\* a tab of the same path at www.github.com, an owner's page and a lone tab of
\* another project
C30_Witness ==
    /\ runs # << >>
    /\ LastRun.call = "detectProjectGroups"
    /\ Len(LastRun.given) = 5
    /\ Len(LastRun.groups) = 1
    /\ LastRun.groups[1].name = "acme/app"
    /\ LastRun.groups[1].tab_count = 2
    /\ \E k \in 1..5 : LastRun.given[k].url.host = "www.github.com"
    /\ \E k \in 1..5 : LastRun.given[k].url.path = "/acme"
    /\ \E k \in 1..5 : LastRun.given[k].url.path = "/acme/web"

\* a scan, wherever it stands
Scans == {f \in BagToSet(handlers) : f.kind = "check"}

\* how long the tab of entry e had been inactive when scan f took its now
InactiveFor(f, e) == f.now - f.read[e.chrome_tab_id].last_active_at

\* C31: every entry a scan lists carries the whole hours of the time between
\* the last_active_at the scan read and the scan's now, rounded down; the hours
\* are never negative and never below the configured threshold, in the scan's
\* list and in the stored one
C31_InactiveHours ==
    /\ \A f \in Scans : \A i \in DOMAIN f.staleTabs :
          LET e == f.staleTabs[i]
          IN /\ e.inactive_hours * HourMs <= InactiveFor(f, e)
             /\ InactiveFor(f, e) < (e.inactive_hours + 1) * HourMs
             /\ e.inactive_hours * HourMs >= f.thresholdMs
             /\ e.inactive_hours >= 0
    /\ \A i \in DOMAIN stale_tabs :
          /\ stale_tabs[i].inactive_hours
                >= SettingsOrDefault(user_settings).inactive_threshold_hours
          /\ stale_tabs[i].inactive_hours >= 0

\* a scan stored a tab whose inactivity is not a whole number of hours
C31_Witness ==
    \E f \in Done("check") :
        /\ f.staleTabs = stale_tabs
        /\ \E i \in DOMAIN stale_tabs : InactiveFor(f, stale_tabs[i]) % HourMs # 0

\* C32: while no scan is in progress the badge shows the length of the stored
\* stale_tabs list in decimal, or nothing when the list is empty, also after
\* two scans that overlapped
C32_BadgeCountsStored ==
    (\A f \in Scans : f.pc = "done") =>
        badge.text = (IF stale_tabs = << >> THEN "" ELSE ToString(Len(stale_tabs)))

\* an activation of tab t is being handled
Activating(t) == \E f \in BagToSet(handlers) : f.kind = "act" /\ f.tabId = t /\ f.pc # "done"

\* tab t is open and tracked, no activation of it is under way, and its
\* inactivity passes the threshold as time goes on
TrackedAndIdle(t) ==
    /\ IsOpen(t)
    /\ Has(tab_activity, t)
    /\ ~Activating(t)
    /\ tab_activity[t].last_active_at + ThresholdMs(SettingsOrDefault(user_settings))
          < horizon * TickMs

\* tab t is listed in the stored stale_tabs, or was closed, or is activated again
ListedOrReleased(t) ==
    \/ t \in StaleIds(stale_tabs)
    \/ ~IsOpen(t)
    \/ Activating(t)

\* C33: with the alarm firing again and again, a tracked tab that stays open
\* and is not activated again is listed in stale_tabs at some time after its
\* inactivity has passed the threshold
C33_EventuallyListed == TrackedAndIdle(1) ~> ListedOrReleased(1)

\* C34: getAllSmartGroups loses no tab that can be grouped: every tab of the
\* input whose domain has at least 2 tabs is in the tabs of a returned group,
\* the tabs of github.com outside every project group included.
C34_NoGroupableTabLost ==
    \A r \in RunsOf("getAllSmartGroups") :
        LET run == runs[r]
            all == [i \in 1..Len(run.given) |-> extractDomain(run.given[i].url)]
        IN \A j \in 1..Len(all) :
              Count(all, all[j]) >= 2 =>
                  \E i \in 1..Len(run.groups) :
                      run.given[j].chrome_tab_id \in Members(run.groups[i])

\* C35: from one write of the store to the next, the last_active_at stored for
\* a tab id does not decrease while its record is there, however the handlers
\* interleave
C35_LastActiveNeverDecreases ==
    [][\A t \in TabIds :
          (Has(tab_activity, t) /\ Has(tab_activity', t)) =>
              tab_activity'[t].last_active_at >= tab_activity[t].last_active_at]_vars

\* C36: every record of tab_activity counts at least one visit and is stored
\* under the key that is its own chrome_tab_id, in every state the handlers
\* reach, overlapping or not
C36_CountedUnderOwnId ==
    \A k \in DOMAIN tab_activity :
        /\ tab_activity[k].visit_count >= 1
        /\ tab_activity[k].chrome_tab_id = k

\* a resync ran to its end and stored a record the activations had counted twice
C36_Witness ==
    /\ Done("sync") # {}
    /\ \E k \in DOMAIN tab_activity : tab_activity[k].visit_count = 2

\* the largest last_active_at of the tabs of session s
Latest(s) ==
    CHOOSE at \in {s.tabs[i].last_active_at : i \in 1..Len(s.tabs)} :
        \A i \in 1..Len(s.tabs) : at >= s.tabs[i].last_active_at

\* C37: the sessions detectSmartSessions returns are disjoint and apart in
\* time: no tab is in two of them, each starts at the smallest and ends at the
\* largest last_active_at of its tabs, and between the end of one and the start
\* of another lie more than 30 minutes.
C37_DisjointAndApart ==
    \A r \in 1..Len(runs) :
        LET sessions == runs[r].sessions
        IN /\ \A i \in 1..Len(sessions) :
                 /\ GetTime(sessions[i].start_time) = Earliest(sessions[i])
                 /\ GetTime(sessions[i].end_time) = Latest(sessions[i])
           /\ \A i, j \in 1..Len(sessions) :
                 i # j =>
                     /\ Members(sessions[i]) \cap Members(sessions[j]) = {}
                     /\ \/ GetTime(sessions[j].start_time) - GetTime(sessions[i].end_time)
                              > 30 * 60 * 1000
                        \/ GetTime(sessions[i].start_time) - GetTime(sessions[j].end_time)
                              > 30 * 60 * 1000

\* a run returned two sessions of two tabs each, a millisecond more than the
\* window apart
C37_Witness ==
    /\ runs # << >>
    /\ Len(LastRun.sessions) = 2
    /\ Members(LastRun.sessions[1]) \cup Members(LastRun.sessions[2]) = 1..4
    /\ GetTime(LastRun.sessions[1].start_time) - GetTime(LastRun.sessions[2].end_time)
          = 30 * 60 * 1000 + 1

\* what C38 compares of a result: of each session its members, its times,
\* its topic_tags, its dominant_domain and its name
Outline(sessions) ==
    {[members |-> Members(sessions[i]), start_time |-> sessions[i].start_time,
      end_time |-> sessions[i].end_time, topic_tags |-> sessions[i].topic_tags,
      dominant_domain |-> sessions[i].dominant_domain, name |-> sessions[i].name] :
        i \in 1..Len(sessions)}

\* C38: detectSmartSessions returns, for every other order of the same
\* records, sessions of the same members, times, topic_tags, dominant_domain
\* and names.
C38_OrderIndependent ==
    \A r \in 1..Len(runs) :
        \A p \in Permutations(DOMAIN runs[r].given) :
            Outline(detectSmartSessions([i \in DOMAIN runs[r].given |-> runs[r].given[p[i]]]))
                = Outline(runs[r].sessions)

\* the ids of the folders of a list
FolderIds(list) == {list[i].id : i \in 1..Len(list)}

\* every handler the host lets be in flight is there and has run to its end,
\* and each of them but f was received while folder id was stored: the
\* requests that overlapped request f
OverlappedAndOver(f, id) ==
    /\ InFlight = cap
    /\ \A g \in BagToSet(handlers) :
          /\ g.pc = "done"
          /\ g # f => id \in FolderIds(g.before.folders)

\* C39: once a DELETE_FOLDER request has been answered with success and the
\* requests that were in flight with it are over, the folder is not in folders
\* and no saved tab has it as folder_id, a SAVE_TABS into the folder that ran
\* at the same time included.
C39_DeletedFolderStaysDeleted ==
    \A f \in Done("DELETE_FOLDER") :
        LET id == f.message.payload[1].id
        IN (f.responses = <<Success>> /\ OverlappedAndOver(f, id)) =>
              /\ id \notin FolderIds(folders)
              /\ \A i \in 1..Len(saved_tabs) : saved_tabs[i].folder_id # id

\* how many requests of a type, answered with success, have not settled yet
Answered(type) ==
    LET S == {f \in Done(type) : f.responses = <<Success>>}
    IN BagCardinality([f \in S |-> handlers[f]])

\* the entries of a list stored under another id than id
Others(list, id) == {i \in 1..Len(list) : list[i].id # id}

\* C40: no write that was answered with success is lost, the requests
\* overlapping or not: every CREATE_FOLDER left its new folder and every
\* SAVE_TABS of an open tab its saved tab, a saved tab that a DELETE_SAVED_TAB
\* deleted is gone, and a folder that an UPDATE_FOLDER renamed has the new name.
C40_NoAcknowledgedWriteLost ==
    /\ Cardinality(Others(folders, Uuid(1))) >= Answered("CREATE_FOLDER")
    /\ Cardinality(Others(saved_tabs, Uuid(2))) >= Answered("SAVE_TABS")
    /\ Answered("DELETE_SAVED_TAB") > 0 => Others(saved_tabs, Uuid(2)) = DOMAIN saved_tabs
    /\ Answered("UPDATE_FOLDER") > 0 =>
          \A i \in 1..Len(folders) : folders[i].id = Uuid(1) => folders[i].name = "Renamed"

====
